---- MODULE Spec2Model ----
(***************************************************************************)
(* Model of the BI compiled-tree aggregation engine (cmk/bi/trees.py):     *)
(* BICompiledLeaf, BICompiledRule and BICompiledAggregation, computed      *)
(* against one status snapshot (bi_status_fetcher).                        *)
(*                                                                         *)
(* Python values are represented as follows:                               *)
(*   Optional[X]   a sequence of length <= 1: None is <<>>, x is <<x>>     *)
(*   dict          a function on the set of its keys                       *)
(*   list          a sequence                                              *)
(*   NamedTuple    a record (RequiredBIElement, BIHostSpec: a tuple)       *)
(***************************************************************************)
EXTENDS Integers, Sequences, FiniteSets, TLC

VARIABLES
    op,                   \* the operation called: "leaf.compute", "rule.compute",
                          \* "compute_branches"
    pc,                   \* "call" before the operation ran, "done" after it
    node,                 \* the node compute() is called on (self)
    branches,             \* the branches compute_branches is called with
    computation_options,  \* the BIAggregationComputationOptions
    bi_status_fetcher,    \* the status snapshot: states and assumed_states
    use_assumed,          \* the use_assumed argument of compute()
    result,               \* what compute() returned: NodeResultBundle | None
    aggregation_results,  \* what compute_branches returned
    idents,               \* what get_identifiers returned: list[NodeIdentifierInfo]
    previous_idents,      \* what the get_identifiers pass before it returned
    used_ids,             \* the used_ids set the caller of get_identifiers passed
    services_of_host,     \* compile_postprocess: the services other nodes use
    bi_searcher,          \* compile_postprocess: the hosts known to the searcher
    postprocessed_nodes,  \* what compile_postprocess returned
    uncompiled,           \* the tree as it was when compile_postprocess was called
    previous_nodes,       \* what the compile_postprocess call before it returned
    branch_results,       \* per branch, what its own compute() call returned
    rendered,             \* what convert_result_to_legacy_format returned
    string_table,         \* local check: the lines of the agent section
    section,              \* local check: what parse_local_pure returned
    discovery             \* local check: what discover_local did

\* The variables of the status computation.
compute_vars == <<branches, computation_options, bi_status_fetcher, use_assumed,
                  result, aggregation_results, branch_results, rendered>>

\* The variables of the local check.
local_vars == <<string_table, section, discovery>>

\* The variables of the identifier pass.
identifier_vars == <<idents, previous_idents, used_ids>>

\* The variables of the compilation.
compile_vars == <<services_of_host, bi_searcher, postprocessed_nodes, uncompiled,
                  previous_nodes>>

vars == <<op, pc, node, compute_vars, identifier_vars, compile_vars, local_vars>>

(***************************************************************************)
(* Optional values and dicts                                               *)
(***************************************************************************)
None == <<>>
Some(x) == <<x>>
The(o) == o[1]

EmptyDict == [k \in {} |-> ""]

\* dict.get(key): the value or None
DictGet(d, key) == IF key \in DOMAIN d THEN Some(d[key]) ELSE None

(***************************************************************************)
(* BIStates (cmk.bi.lib)                                                   *)
(***************************************************************************)
OK == 0
WARN == 1
CRIT == 2
UNKNOWN == 3
PENDING == -1
HOST_UP == 0
HOST_DOWN == 1
HOST_UNREACHABLE == 2

(***************************************************************************)
(* Bounds                                                                  *)
(***************************************************************************)
MaxDowntimeDepth == 1   \* scheduled_downtime_depth ranges over 0..MaxDowntimeDepth
MaxOverrides == 1       \* at most this many entries in assumed_states
MaxNesting == 3         \* at most this many levels of rules above a leaf
MaxBranches == 2        \* at most this many branches in one compute_branches call

(***************************************************************************)
(* Data constructors                                                       *)
(***************************************************************************)
RequiredBIElement(site_id, host_name, service_description) ==
    <<site_id, host_name, service_description>>

BIHostSpec(site_id, host_name) == <<site_id, host_name>>

NodeComputeResult(state, downtime_state, acknowledged, output, in_service_period, state_messages, custom_infos) ==
    [state |-> state,
     downtime_state |-> downtime_state,
     acknowledged |-> acknowledged,
     output |-> output,
     in_service_period |-> in_service_period,
     state_messages |-> state_messages,
     custom_infos |-> custom_infos]

NodeResultBundle(actual_result, assumed_result, nested_results, instance) ==
    [actual_result |-> actual_result,
     assumed_result |-> assumed_result,
     nested_results |-> nested_results,
     instance |-> instance]

(***************************************************************************)
(* cmk.utils.caching.instance_method_lru_cache: every node object keeps    *)
(* the value its required_elements() returned first (the Optional          *)
(* required_elements_cache of the node); a later call returns the kept     *)
(* value without running the method, until cache_clear() empties it.       *)
(***************************************************************************)
\* What a call returns: the kept value, or else what the method computes.
instance_method_lru_cache(cache, computed) ==
    IF cache # None THEN The(cache) ELSE computed

\* The cache after cache_clear().
cache_clear == None

BICompiledLeaf(host_name, site_id, service_description) ==
    [kind |-> "leaf",
     site_id |-> site_id,
     host_name |-> host_name,
     service_description |-> service_description,
     required_elements_cache |-> None]

(***************************************************************************)
(* cmk.utils.defines: names of states, used in the text of assumed results *)
(***************************************************************************)
service_state_name(state) ==
    CASE state = 0 -> "OK"
      [] state = 1 -> "WARN"
      [] state = 2 -> "CRIT"
      [] state = 3 -> "UNKNOWN"
      [] state = -1 -> "PENDING"
      [] OTHER -> "UNKNOWN"

host_state_name(state) ==
    CASE state = 0 -> "UP"
      [] state = 1 -> "DOWN"
      [] state = 2 -> "UNREACH"
      [] OTHER -> "UNKNOWN"

(***************************************************************************)
(* BICompiledLeaf                                                          *)
(***************************************************************************)
\* Returns <<host_downtime_depth, entity>>, both Optional.
_get_entity(self, fetcher) ==
    LET entity == DictGet(fetcher.states, BIHostSpec(self.site_id, self.host_name))
    IN  IF entity = None
        THEN <<None, None>>
        ELSE IF self.service_description = None
             THEN <<Some(The(entity).scheduled_downtime_depth), entity>>
             ELSE <<Some(The(entity).scheduled_downtime_depth),
                    DictGet(The(entity).services_with_fullstate,
                            The(self.service_description))>>

\* Mutant: the host state is passed on unmapped, so DOWN(1) reads as WARN.
_map_hoststate_to_bistate_Unmapped(host_state) == host_state

_map_hoststate_to_bistate(host_state) ==
    IF host_state = HOST_UP THEN OK
    ELSE IF host_state = HOST_DOWN THEN CRIT
    ELSE IF host_state = HOST_UNREACHABLE THEN UNKNOWN
    ELSE UNKNOWN

_get_state_name(self, state) ==
    IF self.service_description # None /\ The(self.service_description) # ""
    THEN service_state_name(state)
    ELSE host_state_name(state)

\* The "not found" bundle of a frozen aggregation (trees.py 139-153).
LeafNotFoundText(self) ==
    (IF self.service_description = None THEN "Host " ELSE "Service") \o " not found"

\* Mutant: the downtime of the host is not looked at.
LeafDowntimeState_EntityOnly(entity, host_downtime_depth, options) ==
    IF entity.scheduled_downtime_depth # 0
    THEN (IF options.escalate_downtimes_as_warn THEN 1 ELSE 2)
    ELSE 0

LeafDowntimeState(entity, host_downtime_depth, options) ==
    IF entity.scheduled_downtime_depth # 0 \/ host_downtime_depth > 0
    THEN (IF options.escalate_downtimes_as_warn THEN 1 ELSE 2)
    ELSE 0

LeafState(self, entity, options) ==
    IF entity.has_been_checked
    THEN LET state == IF options.use_hard_states
                      THEN The(entity.hard_state)
                      ELSE The(entity.state)
         IN  IF self.service_description = None
             THEN _map_hoststate_to_bistate(state)
             ELSE state
    ELSE PENDING

\* Mutant: the override is looked up under the host's key, without the service.
LeafAssumedResult_HostKey(self, entity, downtime_state, fetcher, want_assumed) ==
    IF want_assumed
    THEN LET assumed_state ==
                 DictGet(fetcher.assumed_states,
                         RequiredBIElement(self.site_id, self.host_name, None))
         IN  IF assumed_state # None
             THEN Some(NodeComputeResult(
                           The(assumed_state),
                           downtime_state,
                           entity.acknowledged,
                           "Assumed to be " \o _get_state_name(self, The(assumed_state)),
                           entity.in_service_period,
                           EmptyDict,
                           EmptyDict))
             ELSE None
    ELSE None

\* Mutant: the override is applied whether or not the assumed pass was requested.
LeafAssumedResult_IgnoresFlag(self, entity, downtime_state, fetcher, want_assumed) ==
    LET assumed_state ==
            DictGet(fetcher.assumed_states,
                    RequiredBIElement(self.site_id, self.host_name,
                                      self.service_description))
    IN  IF assumed_state # None
        THEN Some(NodeComputeResult(
                      The(assumed_state),
                      downtime_state,
                      entity.acknowledged,
                      "Assumed to be " \o _get_state_name(self, The(assumed_state)),
                      entity.in_service_period,
                      EmptyDict,
                      EmptyDict))
        ELSE None

LeafAssumedResult(self, entity, downtime_state, fetcher, want_assumed) ==
    IF want_assumed
    THEN LET assumed_state ==
                 DictGet(fetcher.assumed_states,
                         RequiredBIElement(self.site_id, self.host_name,
                                           self.service_description))
         IN  IF assumed_state # None
             THEN Some(NodeComputeResult(
                           The(assumed_state),
                           downtime_state,
                           entity.acknowledged,
                           "Assumed to be " \o _get_state_name(self, The(assumed_state)),
                           entity.in_service_period,
                           EmptyDict,
                           EmptyDict))
             ELSE None
    ELSE None

\* Mutant: a leaf without entity is dropped also from a frozen aggregation.
BICompiledLeaf_compute_MissingDropped(self, options, fetcher, want_assumed) ==
    LET got == _get_entity(self, fetcher)
        host_downtime_depth == got[1]
        entity == got[2]
    IN  IF \/ entity = None
           \/ host_downtime_depth = None
           \/ The(entity).state = None
           \/ The(entity).hard_state = None
        THEN None
        ELSE LET downtime_state ==
                     LeafDowntimeState(The(entity), The(host_downtime_depth), options)
             IN  Some(NodeResultBundle(
                          NodeComputeResult(LeafState(self, The(entity), options),
                                            downtime_state,
                                            The(entity).acknowledged,
                                            The(entity).plugin_output,
                                            The(entity).in_service_period,
                                            EmptyDict,
                                            EmptyDict),
                          LeafAssumedResult(self, The(entity), downtime_state, fetcher,
                                            want_assumed),
                          <<>>,
                          self))

BICompiledLeaf_compute(self, options, fetcher, want_assumed) ==
    LET got == _get_entity(self, fetcher)
        host_downtime_depth == got[1]
        entity == got[2]
    IN  IF \/ entity = None
           \/ host_downtime_depth = None
           \/ The(entity).state = None
           \/ The(entity).hard_state = None
        THEN IF options.freeze_aggregations
             THEN Some(NodeResultBundle(
                           NodeComputeResult(3, 0, FALSE, LeafNotFoundText(self), FALSE,
                                             EmptyDict, EmptyDict),
                           None,
                           <<>>,
                           self))
             ELSE None
        ELSE LET downtime_state ==
                     LeafDowntimeState(The(entity), The(host_downtime_depth), options)
                 state == LeafState(self, The(entity), options)
                 assumed_result ==
                     LeafAssumedResult(self, The(entity), downtime_state, fetcher,
                                       want_assumed)
             IN  Some(NodeResultBundle(
                          NodeComputeResult(state,
                                            downtime_state,
                                            The(entity).acknowledged,
                                            The(entity).plugin_output,
                                            The(entity).in_service_period,
                                            EmptyDict,
                                            EmptyDict),
                          assumed_result,
                          <<>>,
                          self))

(***************************************************************************)
(* Aggregation functions (cmk.bi.aggregation_functions): worst-of and      *)
(* best-of with count 1 and no state restriction.  States are ranked by    *)
(* criticality: OK < PENDING < WARN < UNKNOWN < CRIT.                      *)
(***************************************************************************)
criticality(state) ==
    CASE state = OK -> 0
      [] state = PENDING -> 2
      [] state = WARN -> 4
      [] state = UNKNOWN -> 6
      [] state = CRIT -> 8

SeqRange(seq) == {seq[i] : i \in 1..Len(seq)}

aggregate_worst(states) ==
    CHOOSE s \in SeqRange(states) :
        \A t \in SeqRange(states) : criticality(t) <= criticality(s)

aggregate_best(states) ==
    CHOOSE s \in SeqRange(states) :
        \A t \in SeqRange(states) : criticality(s) <= criticality(t)

aggregate(aggregation_function, states) ==
    IF aggregation_function = "worst"
    THEN aggregate_worst(states)
    ELSE aggregate_best(states)

(***************************************************************************)
(* BICompiledRule                                                          *)
(***************************************************************************)
BIRuleProperties(title, state_messages) ==
    [title |-> title, state_messages |-> state_messages]

BICompiledRule(nodes, properties, aggregation_function) ==
    [kind |-> "rule",
     nodes |-> nodes,
     properties |-> properties,
     aggregation_function |-> aggregation_function,
     required_elements_cache |-> None]

\* str(state)
str(state) == ToString(state)

\* dict.get(key, default)
DictGetDefault(d, key, default) == IF key \in DOMAIN d THEN d[key] ELSE default

RuleState(self, results) ==
    aggregate(self.aggregation_function, [i \in 1..Len(results) |-> results[i].state])

\* Mutant: the message is looked up by the integer state; the keys are strings,
\* so nothing is found.
RuleOutput_IntKey(self, state) == ""

\* self.properties.state_messages.get(str(state), "")
RuleOutput(self, state) ==
    DictGetDefault(self.properties.state_messages, str(state), "")

RuleDowntimeState(self, results, options) ==
    LET downtime_state ==
            aggregate(self.aggregation_function,
                      [i \in 1..Len(results) |-> results[i].downtime_state])
    IN  IF downtime_state > 0
        THEN (IF options.escalate_downtimes_as_warn THEN 2 ELSE 1)
        ELSE downtime_state

\* Mutant: the substitution fold is evaluated whatever the folded state is.
RuleAcknowledged_NoStateGuard(self, results, state) ==
    aggregate(self.aggregation_function,
              [i \in 1..Len(results) |->
                  IF results[i].acknowledged THEN 0 ELSE results[i].state]) = 0

\* Mutant: acknowledged iff every child is acknowledged.
RuleAcknowledged_AllChildren(self, results, state) ==
    \A i \in 1..Len(results) : results[i].acknowledged

RuleAcknowledged(self, results, state) ==
    IF state # 0
    THEN aggregate(self.aggregation_function,
                   [i \in 1..Len(results) |->
                       IF results[i].acknowledged THEN 0 ELSE results[i].state]) = 0
    ELSE FALSE

\* Mutant: the test of the service period is inverted.
RuleInServicePeriod_Inverted(self, results) ==
    aggregate(self.aggregation_function,
              [i \in 1..Len(results) |->
                  IF results[i].in_service_period THEN 2 ELSE 0]) = 0

RuleInServicePeriod(self, results) ==
    aggregate(self.aggregation_function,
              [i \in 1..Len(results) |->
                  IF results[i].in_service_period THEN 0 ELSE 2]) = 0

_process_node_compute_result(self, results, options) ==
    LET state == RuleState(self, results)
    IN  NodeComputeResult(
            state,
            RuleDowntimeState(self, results, options),
            RuleAcknowledged(self, results, state),
            RuleOutput(self, state),
            RuleInServicePeriod(self, results),
            self.properties.state_messages,
            EmptyDict)

\* Mutant: the assumed pass folds the children's actual results.
AssumedResultItem_ActualOnly(bundle) ==
    bundle.actual_result

\* bundle.assumed_result if bundle.assumed_result is not None else bundle.actual_result
AssumedResultItem(bundle) ==
    IF bundle.assumed_result # None
    THEN The(bundle.assumed_result)
    ELSE bundle.actual_result

RECURSIVE ActualResults(_)
\* [x.actual_result for x in bundled_results]
ActualResults(bundled_results) ==
    IF bundled_results = <<>>
    THEN <<>>
    ELSE <<Head(bundled_results).actual_result>> \o ActualResults(Tail(bundled_results))

RECURSIVE AssumedResultItems(_)
\* assumed_result_items of BICompiledRule.compute
AssumedResultItems(bundled_results) ==
    IF bundled_results = <<>>
    THEN <<>>
    ELSE <<AssumedResultItem(Head(bundled_results))>>
         \o AssumedResultItems(Tail(bundled_results))

\* The part of BICompiledRule.compute after the children were computed:
\* bundled_results holds the bundles of the children that are not None.
RuleBundle(self, bundled_results, options, want_assumed) ==
    IF bundled_results = <<>>
    THEN None
    ELSE IF ~want_assumed
         THEN Some(NodeResultBundle(
                       _process_node_compute_result(
                           self, ActualResults(bundled_results), options),
                       None,
                       bundled_results,
                       self))
         ELSE Some(NodeResultBundle(
                       _process_node_compute_result(
                           self, ActualResults(bundled_results), options),
                       Some(_process_node_compute_result(
                                self, AssumedResultItems(bundled_results), options)),
                       bundled_results,
                       self))

RECURSIVE compute(_, _, _, _)

RECURSIVE ComputeNodes_StopAtAbsent(_, _, _, _)
\* Mutant: the children after the first absent one are not computed.
ComputeNodes_StopAtAbsent(nodes, options, fetcher, want_assumed) ==
    IF nodes = <<>> \/ compute(Head(nodes), options, fetcher, want_assumed) = None
    THEN <<>>
    ELSE compute(Head(nodes), options, fetcher, want_assumed)
         \o ComputeNodes_StopAtAbsent(Tail(nodes), options, fetcher, want_assumed)

RECURSIVE ComputeNodes(_, _, _, _)
\* [bundle for bundle in [node.compute(...) for node in nodes] if bundle is not None]
ComputeNodes(nodes, options, fetcher, want_assumed) ==
    IF nodes = <<>>
    THEN <<>>
    ELSE compute(Head(nodes), options, fetcher, want_assumed)
         \o ComputeNodes(Tail(nodes), options, fetcher, want_assumed)

\* node.compute(computation_options, bi_status_fetcher, use_assumed), by node kind.
compute(self, options, fetcher, want_assumed) ==
    CASE self.kind = "leaf" ->
             BICompiledLeaf_compute(self, options, fetcher, want_assumed)
      [] self.kind = "rule" ->
             RuleBundle(self,
                        ComputeNodes(self.nodes, options, fetcher, want_assumed),
                        options,
                        want_assumed)
      [] self.kind = "remaining" -> None

BICompiledRule_compute(self, options, fetcher, want_assumed) ==
    compute(self, options, fetcher, want_assumed)

(***************************************************************************)
(* BICompiledAggregation                                                   *)
(***************************************************************************)
RECURSIVE required_elements_HostKeys(_)
\* Mutant: a leaf requires its host, whatever its service.
required_elements_HostKeys(self) ==
    CASE self.kind = "leaf" ->
             {RequiredBIElement(self.site_id, self.host_name, None)}
      [] self.kind = "rule" ->
             UNION {required_elements_HostKeys(self.nodes[i]) : i \in 1..Len(self.nodes)}

RECURSIVE required_elements(_)
\* What self.required_elements() returns.
required_elements(self) ==
    instance_method_lru_cache(
        self.required_elements_cache,
        CASE self.kind = "leaf" ->
                 {RequiredBIElement(self.site_id, self.host_name, self.service_description)}
          [] self.kind = "rule" ->
                 UNION {required_elements(self.nodes[i]) : i \in 1..Len(self.nodes)}
          [] self.kind = "remaining" -> {})

RECURSIVE required_elements_Cached(_)
\* The node after self.required_elements() returned: the returned value is
\* kept, and a rule that had none kept has called its nodes.
required_elements_Cached(self) ==
    IF self.required_elements_cache # None
    THEN self
    ELSE IF self.kind = "rule"
         THEN [self EXCEPT
                  !.nodes = [i \in 1..Len(self.nodes) |->
                                required_elements_Cached(self.nodes[i])],
                  !.required_elements_cache = Some(required_elements(self))]
         ELSE [self EXCEPT !.required_elements_cache = Some(required_elements(self))]

\* Mutant: the assumed pass is requested as soon as the snapshot holds an override.
compute_assumed_state_AnyOverride(branch, fetcher) ==
    DOMAIN fetcher.assumed_states # {}

\* any(assumed_state_ids.intersection(required_elements)): every element is a
\* non-empty tuple, hence truthy.
compute_assumed_state(branch, fetcher) ==
    (DOMAIN fetcher.assumed_states) \cap required_elements(branch) # {}

RECURSIVE ComputeBranchesWith(_, _, _, _)
\* Every branch computed with the same use_assumed.
ComputeBranchesWith(branch_list, options, fetcher, want_assumed) ==
    IF branch_list = <<>>
    THEN <<>>
    ELSE BICompiledRule_compute(Head(branch_list), options, fetcher, want_assumed)
         \o ComputeBranchesWith(Tail(branch_list), options, fetcher, want_assumed)

\* Mutant: the assumed pass is decided once for all the branches.
compute_branches_SharedFlag(branch_list, options, fetcher) ==
    ComputeBranchesWith(branch_list, options, fetcher,
                        \E i \in 1..Len(branch_list) :
                            compute_assumed_state(branch_list[i], fetcher))

RECURSIVE compute_branches(_, _, _)
\* The bundles refer to the branch objects, which by then keep their required
\* elements.
compute_branches(branch_list, options, fetcher) ==
    IF branch_list = <<>>
    THEN <<>>
    ELSE BICompiledRule_compute(required_elements_Cached(Head(branch_list)), options,
                                fetcher, compute_assumed_state(Head(branch_list), fetcher))
         \o compute_branches(Tail(branch_list), options, fetcher)

\* The branches after compute_branches: required_elements() was called on each.
compute_branches_Cached(branch_list) ==
    [i \in 1..Len(branch_list) |-> required_elements_Cached(branch_list[i])]

(***************************************************************************)
(* BICompiledAggregation.convert_result_to_legacy_format.  A call either   *)
(* returns a value or raises.  Of the descriptive records the model keeps  *)
(* the entries made of fields of the nodes and of the computation options; *)
(* frozen_marker, reqhosts, docu_url, rule_id, icon, the layout style, the *)
(* groups and the visualization come from classes outside this file.      *)
(***************************************************************************)
Returned(value) == [returned |-> value]
Raised(exception) == [raised |-> exception]
HasRaised(r) == DOMAIN r = {"raised"}

\* generate_state(item)
generate_state(item) ==
    IF item = None
    THEN None
    ELSE Some([state |-> The(item).state,
               acknowledged |-> The(item).acknowledged,
               in_downtime |-> The(item).downtime_state > 0,
               in_service_period |-> The(item).in_service_period,
               output |-> The(item).output])

RECURSIVE eval_result_node(_)
\* The record of a node; the key "service" of a leaf is set only if its
\* service_description is neither None nor the empty str (service |-> None
\* stands for a record without the key).
eval_result_node(n) ==
    CASE n.kind = "leaf" ->
             Returned([type |-> 1,
                       host |-> <<n.site_id, n.host_name>>,
                       service |-> IF n.service_description # None
                                      /\ The(n.service_description) # ""
                                   THEN n.service_description
                                   ELSE None,
                       title |-> IF n.service_description = None
                                 THEN n.host_name
                                 ELSE n.host_name \o " - " \o The(n.service_description)])
      [] n.kind = "rule" ->
             LET nodes == [i \in 1..Len(n.nodes) |-> eval_result_node(n.nodes[i])]
             IN  IF \E i \in DOMAIN nodes : HasRaised(nodes[i])
                 THEN Raised("NotImplementedError")
                 ELSE Returned([type |-> 2,
                                title |-> n.properties.title,
                                nodes |-> [i \in DOMAIN nodes |-> nodes[i].returned]])
      [] OTHER -> Raised("NotImplementedError")

create_aggr_tree(bi_compiled_branch, options) ==
    LET response == eval_result_node(bi_compiled_branch)
    IN  IF HasRaised(response)
        THEN response
        ELSE Returned([aggr_type |-> "multi",
                       downtime_aggr_warn |-> options.escalate_downtimes_as_warn,
                       use_hard_states |-> options.use_hard_states]
                      @@ response.returned)

\* Mutant: the list of the children is appended also when it is empty.
TreeStateTuple_AlwaysChildren(bundle, record, children) ==
    <<generate_state(Some(bundle.actual_result)), generate_state(bundle.assumed_result),
      record, children>>

\* The tuple create_tree_state returns: the list of the children is appended
\* only if bundle.nested_results is not empty.
TreeStateTuple(bundle, record, children) ==
    <<generate_state(Some(bundle.actual_result)), generate_state(bundle.assumed_result),
      record>>
    \o (IF bundle.nested_results # <<>> THEN <<children>> ELSE <<>>)

RECURSIVE create_tree_state(_, _, _)
create_tree_state(bundle, is_toplevel, options) ==
    LET record == IF is_toplevel
                  THEN create_aggr_tree(bundle.instance, options)
                  ELSE eval_result_node(bundle.instance)
        children == [i \in 1..Len(bundle.nested_results) |->
                        create_tree_state(bundle.nested_results[i], FALSE, options)]
    IN  IF HasRaised(record) \/ \E i \in DOMAIN children : HasRaised(children[i])
        THEN Raised("NotImplementedError")
        ELSE Returned(TreeStateTuple(bundle, record.returned,
                                     [i \in DOMAIN children |-> children[i].returned]))

convert_result_to_legacy_format(node_result_bundle, options) ==
    LET bi_compiled_branch == node_result_bundle.instance
        aggr_tree == create_aggr_tree(bi_compiled_branch, options)
        aggr_treestate == create_tree_state(node_result_bundle, TRUE, options)
    IN  IF HasRaised(aggr_tree) \/ HasRaised(aggr_treestate)
        THEN Raised("NotImplementedError")
        ELSE Returned(
                 [aggr_tree |-> aggr_tree.returned,
                  aggr_treestate |-> aggr_treestate.returned,
                  aggr_state |-> generate_state(Some(node_result_bundle.actual_result)),
                  aggr_assumed_state |-> generate_state(node_result_bundle.assumed_result),
                  aggr_effective_state |->
                      generate_state(IF node_result_bundle.assumed_result # None
                                     THEN node_result_bundle.assumed_result
                                     ELSE Some(node_result_bundle.actual_result)),
                  aggr_id |-> bi_compiled_branch.properties.title,
                  aggr_name |-> bi_compiled_branch.properties.title,
                  aggr_output |-> node_result_bundle.actual_result.output,
                  aggr_type |-> "multi",
                  aggr_group |-> "dummy",
                  aggr_compiled_branch |-> bi_compiled_branch,
                  tree |-> aggr_tree.returned])

(***************************************************************************)
(* Inputs: options, leaves, snapshots                                      *)
(***************************************************************************)
Options ==
    [use_hard_states : BOOLEAN,
     escalate_downtimes_as_warn : BOOLEAN,
     freeze_aggregations : BOOLEAN]

Sites == {"site1", "site2"}
SnapshotSite == "site1"       \* the site whose hosts the snapshot holds
HostName == "web1"
ServiceName == "HTTP"

Leaves ==
    {BICompiledLeaf(HostName, s, svc) : s \in Sites, svc \in {None, Some(ServiceName)}}

\* A host or service state as the livestatus row holds it: None, or 0..3.
EntityStates == {None} \cup {Some(s) : s \in 0..3}

\* The fields BIServiceWithFullState and BIHostStatusInfoRow share.
ServiceEntities ==
    [state : EntityStates,
     hard_state : EntityStates,
     has_been_checked : BOOLEAN,
     scheduled_downtime_depth : 0..MaxDowntimeDepth,
     acknowledged : BOOLEAN,
     in_service_period : BOOLEAN,
     plugin_output : {"plugin output"}]

HostRow(e, services) ==
    [state |-> e.state,
     hard_state |-> e.hard_state,
     has_been_checked |-> e.has_been_checked,
     scheduled_downtime_depth |-> e.scheduled_downtime_depth,
     acknowledged |-> e.acknowledged,
     in_service_period |-> e.in_service_period,
     plugin_output |-> e.plugin_output,
     services_with_fullstate |-> services]

\* An unremarkable entity: checked, UP/OK, no downtime.
PlainEntity(depth) ==
    [state |-> Some(0),
     hard_state |-> Some(0),
     has_been_checked |-> TRUE,
     scheduled_downtime_depth |-> depth,
     acknowledged |-> FALSE,
     in_service_period |-> TRUE,
     plugin_output |-> "plugin output"]

NoServices == [s \in {} |-> PlainEntity(0)]

OneHost(row) == [h \in {BIHostSpec(SnapshotSite, HostName)} |-> row]
NoHosts == [h \in {} |-> HostRow(PlainEntity(0), NoServices)]

\* Snapshots a single leaf is computed against: no host; the host in every
\* condition without services; the host with its service in every condition.
LeafSnapshots ==
    {NoHosts}
    \cup {OneHost(HostRow(e, NoServices)) : e \in ServiceEntities}
    \cup {OneHost(HostRow(PlainEntity(d), [s \in {ServiceName} |-> e])) :
            d \in 0..MaxDowntimeDepth, e \in ServiceEntities}

AssumedKeys ==
    {RequiredBIElement(SnapshotSite, HostName, svc) : svc \in {None, Some(ServiceName)}}

AssumedValues == {0, 2}

AssumedStates ==
    UNION {[K -> AssumedValues] : K \in {S \in SUBSET AssumedKeys : Cardinality(S) <= MaxOverrides}}

Fetcher(states, assumed_states) ==
    [states |-> states, assumed_states |-> assumed_states]

(***************************************************************************)
(* Inputs: trees                                                           *)
(***************************************************************************)
SecondServiceName == "CPU"

LeafH == BICompiledLeaf(HostName, SnapshotSite, None)
LeafA == BICompiledLeaf(HostName, SnapshotSite, Some(ServiceName))
LeafB == BICompiledLeaf(HostName, SnapshotSite, Some(SecondServiceName))

\* The messages every rule of the model configures: for WARN and CRIT only.
StateMessages ==
    [k \in {"1", "2"} |-> IF k = "1" THEN "warn message" ELSE "crit message"]

AggregationFunctions == {"worst", "best"}

Rule(title, nodes, f) ==
    BICompiledRule(nodes, BIRuleProperties(title, StateMessages), f)

RECURSIVE Nested(_, _, _)
\* The leaves `nodes` under n levels of rules.
Nested(nodes, f, n) ==
    IF n = 1
    THEN Rule("Website", nodes, f)
    ELSE Rule("Website", <<Nested(nodes, f, n - 1)>>, f)

\* The sublists of <<LeafH, LeafA, LeafB>>.
LeafLists ==
    {h \o a \o b : h \in {<<>>, <<LeafH>>}, a \in {<<>>, <<LeafA>>}, b \in {<<>>, <<LeafB>>}}

\* Flat rules, computed against every condition of their entities.
FoldTrees ==
    {Rule("Website", nodes, f) :
        nodes \in {<<LeafA, LeafB>>, <<LeafH, LeafA, LeafB>>},
        f \in AggregationFunctions}

\* Trees of every shape up to MaxNesting levels of rules.
ShapeTrees ==
    {Nested(nodes, f, n) : nodes \in LeafLists, f \in AggregationFunctions, n \in 1..MaxNesting}
    \cup {Rule("Website", <<Rule("Backend", l1, f)>> \o l2, f) :
            l1 \in LeafLists, l2 \in {<<>>, <<LeafB>>}, f \in AggregationFunctions}
    \cup {Rule("Website", <<Rule("Backend", l1, f), Rule("Frontend", l2, f)>>, f) :
            l1 \in {<<>>, <<LeafA>>, <<LeafB>>}, l2 \in {<<>>, <<LeafA>>, <<LeafB>>},
            f \in AggregationFunctions}

BranchTrees ==
    {Rule("Website", nodes, "worst") : nodes \in {<<>>, <<LeafA>>}}
    \cup {Rule("Website", <<Rule("Backend", <<LeafA>>, "worst"), LeafB>>, "worst")}

BranchLists ==
    UNION {[1..n -> BranchTrees] : n \in 0..MaxBranches}

(***************************************************************************)
(* Inputs: snapshots for trees                                             *)
(***************************************************************************)
\* An entity whose hard state is its state.
SteadyEntity(state, checked, depth, acknowledged, in_service_period) ==
    [state |-> Some(state),
     hard_state |-> Some(state),
     has_been_checked |-> checked,
     scheduled_downtime_depth |-> depth,
     acknowledged |-> acknowledged,
     in_service_period |-> in_service_period,
     plugin_output |-> "plugin output"]

\* The first service in every condition a fold distinguishes.
RichEntities ==
    {SteadyEntity(s, TRUE, d, a, p) :
        s \in 0..3, d \in 0..MaxDowntimeDepth, a \in BOOLEAN, p \in BOOLEAN}
    \cup {SteadyEntity(0, FALSE, 0, FALSE, TRUE)}

\* The second service: OK or CRIT, acknowledged or not.
SecondEntities ==
    {SteadyEntity(s, TRUE, 0, a, TRUE) : s \in {0, 2}, a \in BOOLEAN}

\* The host: UP or DOWN, not in downtime (the leaf computations cover the
\* downtime of the host).
HostEntities ==
    {SteadyEntity(s, TRUE, 0, FALSE, TRUE) : s \in {0, 1}}

\* A dict of the services that are present (Optional entities a and b).
Services(a, b) ==
    [s \in (IF a = None THEN {} ELSE {ServiceName})
           \cup (IF b = None THEN {} ELSE {SecondServiceName}) |->
        IF s = ServiceName THEN The(a) ELSE The(b)]

Optional(S) == {None} \cup {Some(x) : x \in S}

FoldSnapshots ==
    {OneHost(HostRow(h, Services(a, b))) :
        h \in HostEntities, a \in Optional(RichEntities), b \in Optional(SecondEntities)}

SimpleEntities ==
    {SteadyEntity(0, TRUE, 0, FALSE, TRUE),
     SteadyEntity(1, TRUE, 1, FALSE, TRUE),
     SteadyEntity(2, TRUE, 0, TRUE, FALSE)}

SimpleSnapshots ==
    {NoHosts}
    \cup {OneHost(HostRow(h, Services(a, b))) :
            h \in {SteadyEntity(0, TRUE, 0, FALSE, TRUE)},
            a \in Optional(SimpleEntities), b \in Optional(SimpleEntities)}

\* Trees are computed on soft states; hard states are the leaf's business.
TreeOptions == {o \in Options : ~o.use_hard_states}

(***************************************************************************)
(* Specification of single-leaf computations                               *)
(***************************************************************************)
\* Nothing was rendered, no branch computed on its own, no local check run.
NoRenderingNoLocalCheck ==
    /\ branch_results = <<>>
    /\ rendered = <<>>
    /\ string_table = <<>>
    /\ section = <<>>
    /\ discovery = <<>>

\* No identifier pass and no compilation has run.
NoIdentifiersNoCompilation ==
    /\ idents = <<>>
    /\ previous_idents = <<>>
    /\ used_ids = {}
    /\ services_of_host = EmptyDict
    /\ bi_searcher = EmptyDict
    /\ postprocessed_nodes = <<>>
    /\ uncompiled = None
    /\ previous_nodes = <<>>
    /\ NoRenderingNoLocalCheck

\* The inputs of one BICompiledLeaf.compute call; nothing computed yet.
InitLeaf ==
    /\ NoIdentifiersNoCompilation
    /\ op = "leaf.compute"
    /\ pc = "call"
    /\ node \in Leaves
    /\ branches = <<>>
    /\ computation_options \in Options
    /\ bi_status_fetcher \in [states : LeafSnapshots, assumed_states : AssumedStates]
    /\ use_assumed \in BOOLEAN
    /\ result = None
    /\ aggregation_results = <<>>

\* BICompiledLeaf.compute on the leaf against the snapshot.
LeafCompute ==
    /\ op = "leaf.compute"
    /\ pc = "call"
    /\ pc' = "done"
    /\ result' = BICompiledLeaf_compute(node, computation_options, bi_status_fetcher,
                                        use_assumed)
    /\ UNCHANGED <<op, node, branches, computation_options, bi_status_fetcher,
                   use_assumed, aggregation_results, branch_results, rendered,
                   identifier_vars, compile_vars, local_vars>>

NextLeaf == LeafCompute

SpecLeaf == InitLeaf /\ [][NextLeaf]_vars

(***************************************************************************)
(* Properties of single-leaf computations (checked under SpecLeaf)         *)
(***************************************************************************)
LeafDone == op = "leaf.compute" /\ pc = "done"

\* The host row of the snapshot for a leaf's (site, host), if any.
HostRowOf(leaf) ==
    DictGet(bi_status_fetcher.states, <<leaf.site_id, leaf.host_name>>)

\* The entity a leaf refers to, if the snapshot holds it: the host row for a
\* host-only leaf, the row of the service among the host's services otherwise.
EntityOf(leaf) ==
    IF HostRowOf(leaf) = None
    THEN None
    ELSE IF leaf.service_description = None
         THEN HostRowOf(leaf)
         ELSE DictGet(The(HostRowOf(leaf)).services_with_fullstate,
                      The(leaf.service_description))

\* The leaf's entity is missing: no host entry, no such service, or an
\* undefined state or hard state.
Missing(leaf) ==
    \/ EntityOf(leaf) = None
    \/ The(EntityOf(leaf)).state = None
    \/ The(EntityOf(leaf)).hard_state = None

OverrideKey(leaf) == <<leaf.site_id, leaf.host_name, leaf.service_description>>

HasOverride(leaf) == OverrideKey(leaf) \in DOMAIN bi_status_fetcher.assumed_states

\* The bundle the claim C1 describes for a missing entity of a frozen aggregation.
NotFoundBundle(leaf, text) ==
    [actual_result |->
         [state |-> 3,
          downtime_state |-> 0,
          acknowledged |-> FALSE,
          output |-> text,
          in_service_period |-> FALSE,
          state_messages |-> EmptyDict,
          custom_infos |-> EmptyDict],
     assumed_result |-> None,
     nested_results |-> <<>>,
     instance |-> leaf]

\* C1: a leaf whose entity is missing computes to absent when
\* freeze_aggregations is false, and when it is true to a bundle with state
\* UNKNOWN(3), downtime_state 0, acknowledged false, in_service_period false,
\* text "Host not found" (host-only leaf) or "Service not found" (service
\* leaf), no assumed result and no child bundles.
C1_MissingEntity ==
    (LeafDone /\ Missing(node)) =>
        IF computation_options.freeze_aggregations
        THEN result = Some(NotFoundBundle(
                               node,
                               IF node.service_description = None
                               THEN "Host not found"
                               ELSE "Service not found"))
        ELSE result = None

\* The state the claim C8 gives a present entity.
ExpectedLeafState(leaf) ==
    LET entity == The(EntityOf(leaf))
        value == IF computation_options.use_hard_states
                 THEN The(entity.hard_state)
                 ELSE The(entity.state)
    IN  IF ~entity.has_been_checked
        THEN PENDING
        ELSE IF leaf.service_description # None
             THEN value
             ELSE CASE value = HOST_UP -> OK
                    [] value = HOST_DOWN -> CRIT
                    [] value = HOST_UNREACHABLE -> UNKNOWN
                    [] OTHER -> UNKNOWN

\* C8: for a present entity the leaf's actual state is PENDING if the entity
\* was never checked, else the hard state (use_hard_states) or the soft
\* state, mapped UP->OK, DOWN->CRIT, UNREACHABLE->UNKNOWN, other->UNKNOWN for
\* a host-only leaf and passed through unchanged for a service leaf.
C8_LeafBaseState ==
    (LeafDone /\ ~Missing(node)) =>
        /\ result # None
        /\ The(result).actual_result.state = ExpectedLeafState(node)

\* A host-only leaf on a checked host that is DOWN in its hard state and UP
\* in its soft state, computed on hard states: CRIT.
C8_Witness ==
    /\ LeafDone
    /\ ~Missing(node)
    /\ node.service_description = None
    /\ The(EntityOf(node)).has_been_checked
    /\ The(EntityOf(node)).hard_state = Some(HOST_DOWN)
    /\ The(EntityOf(node)).state = Some(HOST_UP)
    /\ computation_options.use_hard_states
    /\ The(result).actual_result.state = CRIT

\* C9: for a present entity the leaf's downtime_state is 0 iff the entity's
\* own downtime depth and its host's downtime depth are both 0, and else is
\* 1 with escalate_downtimes_as_warn and 2 without; whatever the entity's
\* state and use_hard_states are.
C9_LeafDowntime ==
    (LeafDone /\ ~Missing(node)) =>
        /\ result # None
        /\ The(result).actual_result.downtime_state =
               IF /\ The(EntityOf(node)).scheduled_downtime_depth = 0
                  /\ The(HostRowOf(node)).scheduled_downtime_depth = 0
               THEN 0
               ELSE IF computation_options.escalate_downtimes_as_warn THEN 1 ELSE 2

\* A service leaf whose service is not in downtime while its host is.
C9_Witness ==
    /\ LeafDone
    /\ ~Missing(node)
    /\ node.service_description # None
    /\ The(EntityOf(node)).scheduled_downtime_depth = 0
    /\ The(HostRowOf(node)).scheduled_downtime_depth > 0
    /\ computation_options.escalate_downtimes_as_warn
    /\ The(result).actual_result.downtime_state = 1

\* The snapshot without any override.
WithoutOverrides ==
    Fetcher(bi_status_fetcher.states, [k \in {} |-> 0])

\* C10: a present leaf's bundle carries an assumed result iff use_assumed is
\* set and the snapshot holds an override for exactly the leaf's (site, host,
\* service-or-none) key; the assumed result has the override's state and the
\* downtime_state, acknowledged and in_service_period of the actual result;
\* the actual result is what it is without the override.
C10_LeafAssumed ==
    (LeafDone /\ ~Missing(node)) =>
        /\ result # None
        /\ (The(result).assumed_result # None) <=> (use_assumed /\ HasOverride(node))
        /\ The(result).assumed_result # None =>
               LET assumed == The(The(result).assumed_result)
                   actual == The(result).actual_result
               IN  /\ assumed.state = bi_status_fetcher.assumed_states[OverrideKey(node)]
                   /\ assumed.downtime_state = actual.downtime_state
                   /\ assumed.acknowledged = actual.acknowledged
                   /\ assumed.in_service_period = actual.in_service_period
        /\ The(result).actual_result =
               The(BICompiledLeaf_compute(node, computation_options, WithoutOverrides,
                                          FALSE)).actual_result

\* A service leaf in downtime with an override to CRIT while its state is OK.
C10_Witness ==
    /\ LeafDone
    /\ ~Missing(node)
    /\ node.service_description # None
    /\ use_assumed
    /\ HasOverride(node)
    /\ The(result).actual_result.state = OK
    /\ The(result).actual_result.downtime_state > 0
    /\ The(result).assumed_result # None
    /\ The(The(result).assumed_result).state = CRIT

(***************************************************************************)
(* Specification of tree computations                                      *)
(***************************************************************************)
\* The inputs of one BICompiledRule.compute or compute_branches call.
Init ==
    /\ NoIdentifiersNoCompilation
    /\ pc = "call"
    /\ result = None
    /\ aggregation_results = <<>>
    /\ computation_options \in TreeOptions
    /\ \/ /\ op = "rule.compute"
          /\ node \in FoldTrees
          /\ branches = <<>>
          /\ bi_status_fetcher \in [states : FoldSnapshots, assumed_states : AssumedStates]
          /\ use_assumed = TRUE
       \/ /\ op = "rule.compute"
          /\ node \in ShapeTrees
          /\ branches = <<>>
          /\ bi_status_fetcher \in [states : SimpleSnapshots, assumed_states : AssumedStates]
          /\ use_assumed \in BOOLEAN
       \/ /\ op = "compute_branches"
          /\ node = Rule("Website", <<>>, "worst")
          /\ branches \in BranchLists
          /\ bi_status_fetcher \in [states : SimpleSnapshots, assumed_states : AssumedStates]
          /\ use_assumed = FALSE

\* BICompiledRule.compute on the tree against the snapshot.
RuleCompute ==
    /\ op = "rule.compute"
    /\ pc = "call"
    /\ pc' = "done"
    /\ result' = BICompiledRule_compute(node, computation_options, bi_status_fetcher,
                                        use_assumed)
    /\ UNCHANGED <<op, node, branches, computation_options, bi_status_fetcher,
                   use_assumed, aggregation_results, branch_results, rendered,
                   identifier_vars, compile_vars, local_vars>>

\* BICompiledAggregation.compute_branches on the branches against the snapshot.
ComputeBranches ==
    /\ op = "compute_branches"
    /\ pc = "call"
    /\ pc' = "done"
    /\ aggregation_results' = compute_branches(branches, computation_options,
                                               bi_status_fetcher)
    /\ branches' = compute_branches_Cached(branches)
    /\ UNCHANGED <<op, node, computation_options, bi_status_fetcher,
                   use_assumed, result, branch_results, rendered,
                   identifier_vars, compile_vars, local_vars>>

Next == RuleCompute \/ ComputeBranches

Spec == Init /\ [][Next]_vars

(***************************************************************************)
(* Properties of tree computations (checked under Spec)                    *)
(***************************************************************************)
RECURSIVE Bundles(_)
\* A bundle and every bundle nested in it.
Bundles(b) ==
    {b} \cup UNION {Bundles(b.nested_results[i]) : i \in 1..Len(b.nested_results)}

\* Every bundle of what the operation returned.
AllBundles ==
    IF pc = "done"
    THEN UNION {Bundles(r) : r \in SeqRange(result) \cup SeqRange(aggregation_results)}
    ELSE {}

RuleBundles == {b \in AllBundles : b.instance.kind = "rule"}

\* What a child bundle contributes to its parent's assumed pass.
AssumedOrActual(b) ==
    IF b.assumed_result # None THEN The(b.assumed_result) ELSE b.actual_result

\* The folds a rule bundle holds: its actual result over the children's actual
\* results and, if it has one, its assumed result over the children's assumed
\* (else actual) results.
Folds(b) ==
    {[rule |-> b.actual_result,
      children |-> [i \in 1..Len(b.nested_results) |-> b.nested_results[i].actual_result],
      function |-> b.instance.aggregation_function,
      messages |-> b.instance.properties.state_messages]}
    \cup (IF b.assumed_result = None
          THEN {}
          ELSE {[rule |-> The(b.assumed_result),
                 children |-> [i \in 1..Len(b.nested_results) |->
                                  AssumedOrActual(b.nested_results[i])],
                 function |-> b.instance.aggregation_function,
                 messages |-> b.instance.properties.state_messages]})

AllFolds == UNION {Folds(b) : b \in RuleBundles}

Children(fold) == 1..Len(fold.children)

\* The downtime_state a node in downtime has under the options, as the leaf
\* computes it and the specification states it for rules.
EscalatedDowntime ==
    IF computation_options.escalate_downtimes_as_warn THEN 1 ELSE 2

\* A leaf bundle in downtime one or two levels below the rule bundle b.
LeafInDowntimeBelow(b, leaf) ==
    /\ leaf.instance.kind = "leaf"
    /\ leaf.actual_result.downtime_state > 0
    /\ \/ leaf \in SeqRange(b.nested_results)
       \/ \E mid \in SeqRange(b.nested_results) : leaf \in SeqRange(mid.nested_results)

\* C2: every rule result (actual and assumed pass, at every level) has
\* downtime_state 0 when the aggregation of the children's downtime_states is
\* 0, and else 1 with escalate_downtimes_as_warn and 2 without; so a worst-of
\* rule one or two levels above a leaf in downtime reports that leaf's
\* downtime_state.
C2_RuleDowntimeFold ==
    /\ \A fold \in AllFolds :
           fold.rule.downtime_state =
               IF aggregate(fold.function,
                            [i \in Children(fold) |-> fold.children[i].downtime_state]) = 0
               THEN 0
               ELSE EscalatedDowntime
    /\ \A b \in RuleBundles : \A leaf \in AllBundles :
           (b.instance.aggregation_function = "worst" /\ LeafInDowntimeBelow(b, leaf)) =>
               b.actual_result.downtime_state = leaf.actual_result.downtime_state

\* C3: a rule whose folded state is OK is not acknowledged; a rule whose folded
\* state is not OK is acknowledged iff the aggregation with every acknowledged
\* child's state replaced by 0 yields 0; for worst-of: iff every child with a
\* non-OK state is acknowledged.
C3_RuleAcknowledged ==
    \A fold \in AllFolds :
        /\ fold.rule.state = 0 => ~fold.rule.acknowledged
        /\ fold.rule.state # 0 =>
               (fold.rule.acknowledged <=>
                    aggregate(fold.function,
                              [i \in Children(fold) |->
                                  IF fold.children[i].acknowledged
                                  THEN 0
                                  ELSE fold.children[i].state]) = 0)
        /\ (fold.function = "worst" /\ fold.rule.state # 0) =>
               (fold.rule.acknowledged <=>
                    \A i \in Children(fold) :
                        fold.children[i].state # 0 => fold.children[i].acknowledged)

\* A worst-of rule that is not OK and acknowledged, over two non-OK children.
C3_Witness ==
    \E fold \in AllFolds :
        /\ fold.function = "worst"
        /\ fold.rule.state # 0
        /\ fold.rule.acknowledged
        /\ Cardinality({i \in Children(fold) : fold.children[i].state # 0}) >= 2

\* The bundle of a leaf that was not found in a frozen aggregation.
IsNotFoundLeaf(b) ==
    /\ b.instance.kind = "leaf"
    /\ Missing(b.instance)
    /\ computation_options.freeze_aggregations

\* C4: a rule's in_service_period is true iff the aggregation of 0 for each
\* surviving child in its service period and 2 for each child outside equals
\* 0; with worst-of any surviving child outside its service period, a frozen
\* "not found" leaf included, makes it false.
C4_RuleInServicePeriod ==
    /\ \A fold \in AllFolds :
           /\ fold.rule.in_service_period <=>
                  aggregate(fold.function,
                            [i \in Children(fold) |->
                                IF fold.children[i].in_service_period THEN 0 ELSE 2]) = 0
           /\ (/\ fold.function = "worst"
               /\ \E i \in Children(fold) : ~fold.children[i].in_service_period) =>
                  ~fold.rule.in_service_period
    /\ \A b \in RuleBundles :
           (/\ b.instance.aggregation_function = "worst"
            /\ \E i \in 1..Len(b.nested_results) : IsNotFoundLeaf(b.nested_results[i])) =>
               ~b.actual_result.in_service_period

\* A worst-of rule over a service in its service period and a frozen "not
\* found" leaf: not in its service period.
C4_Witness ==
    \E b \in RuleBundles :
        /\ b.instance.aggregation_function = "worst"
        /\ \E i \in 1..Len(b.nested_results) : IsNotFoundLeaf(b.nested_results[i])
        /\ \E i \in 1..Len(b.nested_results) :
               /\ ~IsNotFoundLeaf(b.nested_results[i])
               /\ b.nested_results[i].actual_result.in_service_period
        /\ ~b.actual_result.in_service_period

\* Every child of the fold is OK and not in downtime.
AllChildrenOK(fold) ==
    \A i \in Children(fold) :
        fold.children[i].state = 0 /\ fold.children[i].downtime_state = 0

\* C5 as stated: a rule whose surviving children all are OK and not in
\* downtime, whatever their acknowledged and in_service_period flags, has
\* state OK, acknowledged false and in_service_period true.
C5_AllOK_Original ==
    \A fold \in AllFolds :
        AllChildrenOK(fold) =>
            /\ fold.rule.state = 0
            /\ ~fold.rule.acknowledged
            /\ fold.rule.in_service_period

\* C5 (amended): a rule whose surviving children all are OK and not in
\* downtime has state OK and acknowledged false whatever the children's flags
\* are; its in_service_period is true if every surviving child is in its
\* service period, and false for worst-of if some child is not.
C5_AllOK ==
    \A fold \in AllFolds :
        AllChildrenOK(fold) =>
            /\ fold.rule.state = 0
            /\ ~fold.rule.acknowledged
            /\ (\A i \in Children(fold) : fold.children[i].in_service_period) =>
                   fold.rule.in_service_period
            /\ (/\ fold.function = "worst"
                /\ \E i \in Children(fold) : ~fold.children[i].in_service_period) =>
                   ~fold.rule.in_service_period

\* A rule over two OK children out of downtime, one of them acknowledged.
C5_Witness ==
    \E fold \in AllFolds :
        /\ AllChildrenOK(fold)
        /\ Len(fold.children) >= 2
        /\ \E i \in Children(fold) : fold.children[i].acknowledged
        /\ \A i \in Children(fold) : fold.children[i].in_service_period
        /\ fold.rule.state = 0
        /\ ~fold.rule.acknowledged
        /\ fold.rule.in_service_period

RECURSIVE Evaluable(_)
\* A node some leaf of which yields a bundle: a leaf does if its entity is
\* present or the aggregation is frozen, a rule if one of its children does.
Evaluable(n) ==
    IF n.kind = "leaf"
    THEN computation_options.freeze_aggregations \/ ~Missing(n)
    ELSE \E i \in 1..Len(n.nodes) : Evaluable(n.nodes[i])

\* The nodes the bundles were computed from, in the bundles' order.
Instances(bundles) == [i \in 1..Len(bundles) |-> bundles[i].instance]

\* C6: Rule.compute returns absent iff every child's compute() returned absent
\* (a rule without children included); otherwise the bundle's child list holds
\* exactly the bundles of the non-absent children, in child order; and
\* compute_branches returns the bundles of the non-absent branches only, in
\* branch order.
C6_Pruning ==
    /\ (op = "rule.compute" /\ pc = "done") =>
           /\ result = None <=>
                  \A i \in 1..Len(node.nodes) :
                      compute(node.nodes[i], computation_options, bi_status_fetcher,
                              use_assumed) = None
           /\ result = None <=> ~Evaluable(node)
           /\ result # None => The(result).instance = node
    /\ (op = "compute_branches" /\ pc = "done") =>
           Instances(aggregation_results) = SelectSeq(branches, Evaluable)
    /\ \A b \in AllBundles :
           IF b.instance.kind = "rule"
           THEN /\ b.nested_results # <<>>
                /\ Instances(b.nested_results) = SelectSeq(b.instance.nodes, Evaluable)
           ELSE b.nested_results = <<>>

\* compute_branches on two branches: the first is absent, the second is kept
\* with one of its sub-rules pruned.
C6_Witness ==
    /\ op = "compute_branches"
    /\ pc = "done"
    /\ Len(branches) = 2
    /\ ~Evaluable(branches[1])
    /\ branches[1].nodes # <<>>
    /\ Len(aggregation_results) = 1
    /\ aggregation_results[1].instance = branches[2]
    /\ Len(aggregation_results[1].nested_results) < Len(branches[2].nodes)

\* The message the rules of the model configure for a state.
ConfiguredMessage(state) ==
    IF state = WARN THEN "warn message"
    ELSE IF state = CRIT THEN "crit message"
    ELSE ""

States(fold) == [i \in Children(fold) |-> fold.children[i].state]

\* C7: a rule's state is the aggregation of the states of its surviving
\* children and its text the rule's message for that state, or "" if none is
\* configured; worst-of folds [OK, WARN, CRIT] to CRIT and [OK, WARN (not
\* acknowledged)] to WARN, not acknowledged, with the WARN message.
C7_RuleStateAndText ==
    \A fold \in AllFolds :
        /\ fold.rule.state = aggregate(fold.function, States(fold))
        /\ fold.rule.output = ConfiguredMessage(fold.rule.state)
        /\ (fold.function = "worst" /\ States(fold) = <<OK, WARN, CRIT>>) =>
               fold.rule.state = CRIT
        /\ (/\ fold.function = "worst"
            /\ States(fold) = <<OK, WARN>>
            /\ ~fold.children[2].acknowledged) =>
               /\ fold.rule.state = WARN
               /\ ~fold.rule.acknowledged
               /\ fold.rule.output = "warn message"

\* A worst-of rule over an OK host, a WARN service and a CRIT service.
C7_Witness ==
    \E fold \in AllFolds :
        /\ fold.function = "worst"
        /\ States(fold) = <<OK, WARN, CRIT>>
        /\ fold.rule.state = CRIT
        /\ fold.rule.output = "crit message"

(***************************************************************************)
(* Specification of the assumed pass: trees and branch lists against       *)
(* snapshots that hold operator overrides                                  *)
(***************************************************************************)
OtherSite == "site2"

\* The keys an operator may have set an assumed state for: the host, its two
\* services, and the first service's namesake on another site.
OverrideKeys ==
    {RequiredBIElement(SnapshotSite, HostName, svc) :
        svc \in {None, Some(ServiceName), Some(SecondServiceName)}}
    \cup {RequiredBIElement(OtherSite, HostName, Some(ServiceName))}

\* bi_status_fetcher.assumed_states with at most MaxOverrides entries.
Overrides ==
    UNION {[K -> AssumedValues] :
              K \in {S \in SUBSET OverrideKeys : Cardinality(S) <= MaxOverrides}}

AssumedEntities ==
    {SteadyEntity(0, TRUE, 0, FALSE, TRUE),
     SteadyEntity(1, TRUE, 1, TRUE, FALSE)}

AssumedSnapshots ==
    {NoHosts}
    \cup {OneHost(HostRow(h, Services(a, b))) :
            h \in {SteadyEntity(0, TRUE, 0, FALSE, TRUE)},
            a \in Optional(AssumedEntities),
            b \in Optional({SteadyEntity(0, TRUE, 0, FALSE, TRUE)})}

\* Chains of rules over both services, and rules with two sibling sub-rules.
AssumedTrees ==
    {Nested(<<LeafA, LeafB>>, f, n) : f \in AggregationFunctions, n \in 1..MaxNesting}
    \cup {Rule("Website", <<Rule("Backend", l1, f), Rule("Frontend", l2, f)>> \o l3, f) :
            l1 \in {<<LeafA>>, <<LeafB>>}, l2 \in {<<LeafA>>, <<LeafB>>},
            l3 \in {<<>>, <<LeafH>>}, f \in AggregationFunctions}

AssumedBranchTrees ==
    {Rule("Website", nodes, "worst") : nodes \in {<<LeafA>>, <<LeafB>>}}
    \cup {Rule("Website", <<Rule("Backend", <<LeafB>>, "worst"), LeafA>>, "worst")}

AssumedBranchLists ==
    UNION {[1..n -> AssumedBranchTrees] : n \in 0..MaxBranches}

\* The assumed pass is computed with and without frozen aggregations.
AssumedOptions == {o \in TreeOptions : ~o.escalate_downtimes_as_warn}

InitAssumed ==
    /\ NoIdentifiersNoCompilation
    /\ pc = "call"
    /\ result = None
    /\ aggregation_results = <<>>
    /\ computation_options \in AssumedOptions
    /\ bi_status_fetcher \in [states : AssumedSnapshots, assumed_states : Overrides]
    /\ \/ /\ op = "rule.compute"
          /\ node \in AssumedTrees
          /\ branches = <<>>
          /\ use_assumed \in BOOLEAN
       \/ /\ op = "compute_branches"
          /\ node = Rule("Website", <<>>, "worst")
          /\ branches \in AssumedBranchLists
          /\ use_assumed = FALSE

NextAssumed == RuleCompute \/ ComputeBranches

SpecAssumed == InitAssumed /\ [][NextAssumed]_vars

(***************************************************************************)
(* Properties of the assumed pass (checked under SpecAssumed)              *)
(***************************************************************************)
\* The keys the snapshot holds an override for.
OverriddenKeys == DOMAIN bi_status_fetcher.assumed_states

\* The key of a leaf.
LeafKey(leaf) ==
    RequiredBIElement(leaf.site_id, leaf.host_name, leaf.service_description)

RECURSIVE LeavesOf(_)
\* The leaves of a tree.
LeavesOf(n) ==
    IF n.kind = "leaf"
    THEN {n}
    ELSE UNION {LeavesOf(n.nodes[i]) : i \in 1..Len(n.nodes)}

\* The keys of the leaves of a tree: its required elements.
KeysOf(n) == {LeafKey(l) : l \in LeavesOf(n)}

\* C11: when BICompiledRule.compute is called with use_assumed = False, no
\* bundle of the returned tree (the rule, nested rules, leaves) carries an
\* assumed result, whatever overrides the snapshot holds.
C11_NoAssumedUnlessRequested ==
    (pc = "done" /\ op = "rule.compute" /\ ~use_assumed)
        => \A b \in AllBundles : b.assumed_result = None

\* C11 happens: a tree two rules deep was computed without the assumed pass
\* while the snapshot overrides a leaf that is present in the result.
C11_Witness ==
    /\ pc = "done"
    /\ op = "rule.compute"
    /\ ~use_assumed
    /\ result # None
    /\ \E b \in AllBundles :
          /\ b.instance.kind = "leaf"
          /\ LeafKey(b.instance) \in OverriddenKeys
          /\ b \notin SeqRange(The(result).nested_results)
    /\ \A b \in AllBundles : b.assumed_result = None

RECURSIVE StripAssumed(_)
\* A bundle tree without its assumed results.
StripAssumed(b) ==
    NodeResultBundle(b.actual_result,
                     None,
                     [i \in 1..Len(b.nested_results) |-> StripAssumed(b.nested_results[i])],
                     b.instance)

\* The children's actual results, in order.
ChildActuals(b) ==
    [i \in 1..Len(b.nested_results) |-> b.nested_results[i].actual_result]

\* Per child in order, its assumed result if it has one, else its actual result.
ChildAssumedOrActuals(b) ==
    [i \in 1..Len(b.nested_results) |-> AssumedOrActual(b.nested_results[i])]

\* C12: with use_assumed = True, the assumed result of every rule is the fold
\* (state, downtime, acknowledged, in_service_period, text) of the list holding,
\* per surviving child in order, the child's assumed result if it has one and
\* its actual result otherwise; the actual result of every rule is the fold of
\* the children's actual results, and the actual results of the whole tree are
\* those computed with use_assumed = False.
C12_AssumedFold ==
    (pc = "done" /\ op = "rule.compute" /\ use_assumed)
        => /\ \A b \in RuleBundles :
                 /\ b.assumed_result # None
                 /\ The(b.assumed_result) =
                        _process_node_compute_result(
                            b.instance, ChildAssumedOrActuals(b), computation_options)
                 /\ b.actual_result =
                        _process_node_compute_result(
                            b.instance, ChildActuals(b), computation_options)
           /\ BICompiledRule_compute(node, computation_options, bi_status_fetcher, FALSE)
                  = IF result = None THEN None ELSE Some(StripAssumed(The(result)))

\* C12 happens: a rule below the root has one child with an assumed result and
\* one without, and its assumed state differs from its actual state.
C12_Witness ==
    /\ pc = "done"
    /\ op = "rule.compute"
    /\ use_assumed
    /\ \E b \in RuleBundles :
          /\ b # The(result)
          /\ \E i, j \in 1..Len(b.nested_results) :
                /\ b.nested_results[i].assumed_result # None
                /\ b.nested_results[j].assumed_result = None
          /\ b.assumed_result # None
          /\ The(b.assumed_result).state # b.actual_result.state
          /\ The(b.assumed_result) =
                 _process_node_compute_result(
                     b.instance, ChildAssumedOrActuals(b), computation_options)

\* C13 as stated: in every bundle tree returned by compute_branches, a bundle
\* (leaf or rule, at any depth) carries an assumed result only when an override
\* is in effect for some leaf of that bundle's own subtree, so a sub-rule
\* without an overridden entity below it has none even when a sibling subtree
\* of the same branch has an override.
C13_AssumedOnlyBelowOverride_Original ==
    (pc = "done" /\ op = "compute_branches")
        => \A b \in AllBundles :
               b.assumed_result # None
                   => KeysOf(b.instance) \cap OverriddenKeys # {}

\* C13, amended: in every bundle tree returned by compute_branches, a leaf
\* bundle carries an assumed result only when an override is in effect for that
\* leaf, and a rule bundle (at any depth) carries one exactly when an override
\* is in effect for some leaf of the branch it belongs to: a sub-rule without
\* an overridden entity below it has an assumed result when a sibling subtree
\* of the same branch has an override.
C13_AssumedOnlyInOverriddenBranch ==
    (pc = "done" /\ op = "compute_branches")
        => \A top \in SeqRange(aggregation_results) :
               \A b \in Bundles(top) :
                   IF b.instance.kind = "leaf"
                   THEN b.assumed_result # None
                            => LeafKey(b.instance) \in OverriddenKeys
                   ELSE b.assumed_result # None
                            <=> KeysOf(top.instance) \cap OverriddenKeys # {}

\* C13 happens: a branch holds a sub-rule without an overridden entity below
\* it next to a leaf with an override, and both carry an assumed result.
C13_Witness ==
    /\ pc = "done"
    /\ op = "compute_branches"
    /\ \E top \in SeqRange(aggregation_results) :
          \E i, j \in 1..Len(top.nested_results) :
              /\ top.nested_results[i].instance.kind = "rule"
              /\ KeysOf(top.nested_results[i].instance) \cap OverriddenKeys = {}
              /\ top.nested_results[i].assumed_result # None
              /\ top.nested_results[j].instance.kind = "leaf"
              /\ LeafKey(top.nested_results[j].instance) \in OverriddenKeys
              /\ top.nested_results[j].assumed_result # None

\* An override is in effect for some required element of the branch.
BranchOverridden(branch) == KeysOf(branch) \cap OverriddenKeys # {}

RECURSIVE BranchResultsFrom(_)
\* The results of the branches from the i-th on, each computed with the
\* assumed pass iff one of its own required elements is overridden.
BranchResultsFrom(i) ==
    IF i > Len(branches)
    THEN <<>>
    ELSE BICompiledRule_compute(branches[i], computation_options, bi_status_fetcher,
                                BranchOverridden(branches[i]))
         \o BranchResultsFrom(i + 1)

\* C14: compute_branches requests the assumed pass per branch, independently
\* of the other branches: a branch is computed with use_assumed = True iff an
\* overridden key is among its required elements, so a returned top-level
\* bundle carries an assumed result iff that holds for its branch.
C14_AssumedPassPerBranch ==
    (pc = "done" /\ op = "compute_branches")
        => /\ aggregation_results = BranchResultsFrom(1)
           /\ \A top \in SeqRange(aggregation_results) :
                  top.assumed_result # None <=> BranchOverridden(top.instance)

\* C14 happens: of two branches computed against one snapshot, one has an
\* overridden element and an assumed result, the other has neither.
C14_Witness ==
    /\ pc = "done"
    /\ op = "compute_branches"
    /\ Len(aggregation_results) >= 2
    /\ \E i, j \in 1..Len(aggregation_results) :
          /\ BranchOverridden(aggregation_results[i].instance)
          /\ aggregation_results[i].assumed_result # None
          /\ ~BranchOverridden(aggregation_results[j].instance)
          /\ aggregation_results[j].assumed_result = None

\* The snapshot with its overrides restricted to the keys in K.
WithOverridesIn(K) ==
    Fetcher(bi_status_fetcher.states,
            [k \in OverriddenKeys \cap K |-> bi_status_fetcher.assumed_states[k]])

RECURSIVE BranchResultsIgnoringFrom(_)
\* The results of the branches from the i-th on, each computed alone against
\* the snapshot without the overrides that it does not require.
BranchResultsIgnoringFrom(i) ==
    IF i > Len(branches)
    THEN <<>>
    ELSE compute_branches(<<branches[i]>>, computation_options,
                          WithOverridesIn(KeysOf(branches[i])))
         \o BranchResultsIgnoringFrom(i + 1)

\* C15: an override whose key is not among a branch's required elements is a
\* no-op for that branch: what compute_branches returns for the branch (actual
\* results, assumed results, shape) is what it returns for the same snapshot
\* with that override removed.
C15_ForeignOverrideIsNoOp ==
    (pc = "done" /\ op = "compute_branches")
        => /\ aggregation_results = BranchResultsIgnoringFrom(1)
           /\ \A i \in 1..Len(branches) :
                  \A k \in OverriddenKeys \ KeysOf(branches[i]) :
                      compute_branches(<<branches[i]>>, computation_options,
                                       WithOverridesIn(OverriddenKeys \ {k}))
                          = compute_branches(<<branches[i]>>, computation_options,
                                             bi_status_fetcher)

\* C15 happens: a branch that returned a bundle was computed against a snapshot
\* that overrides a key the branch does not require.
C15_Witness ==
    /\ pc = "done"
    /\ op = "compute_branches"
    /\ \E top \in SeqRange(aggregation_results) :
          /\ OverriddenKeys \ KeysOf(top.instance) # {}
          /\ top.assumed_result = None
          /\ Len(top.nested_results) > 0

(***************************************************************************)
(* Node identifiers: get_identifiers                                       *)
(***************************************************************************)
MaxSiblings == 3

NodeIdentifierInfo(id, instance) == [id |-> id, node |-> instance]

\* Mutant: the first number is taken, used or not.
FirstFreeNumber_First(parent_id, name, used, n) ==
    n

RECURSIVE FirstFreeNumber(_, _, _, _)
\* own_id[0] after the loop
\*     while (*parent_id, own_id) in used_ids: own_id = (own_id[0] + 1, ...)
\* started at n; name is the rest of own_id.
FirstFreeNumber(parent_id, name, used, n) ==
    IF Append(parent_id, <<n>> \o name) \in used
    THEN FirstFreeNumber(parent_id, name, used, n + 1)
    ELSE n

\* Mutant: the leaf does not record its identifier as used.
BICompiledLeaf_get_identifiers_NotRecorded(self, parent_id, used) ==
    LET name == <<self.host_name, self.service_description>>
        own_id == <<FirstFreeNumber(parent_id, name, used, 1)>> \o name
        my_id == Append(parent_id, own_id)
    IN  [idents |-> <<NodeIdentifierInfo(my_id, self)>>,
         used_ids |-> used]

\* BICompiledLeaf.get_identifiers: the returned list and the used_ids after it.
BICompiledLeaf_get_identifiers(self, parent_id, used) ==
    LET name == <<self.host_name, self.service_description>>
        own_id == <<FirstFreeNumber(parent_id, name, used, 1)>> \o name
        my_id == Append(parent_id, own_id)
    IN  [idents |-> <<NodeIdentifierInfo(my_id, self)>>,
         used_ids |-> used \cup {my_id}]

RECURSIVE get_identifiers(_, _, _)

RECURSIVE NodesIdentifiers(_, _, _)
\* for node in self.nodes: idents.extend(node.get_identifiers(my_id, used_ids))
NodesIdentifiers(nodes, my_id, used) ==
    IF nodes = <<>>
    THEN [idents |-> <<>>, used_ids |-> used]
    ELSE LET first == get_identifiers(Head(nodes), my_id, used)
             rest == NodesIdentifiers(Tail(nodes), my_id, first.used_ids)
         IN  [idents |-> first.idents \o rest.idents, used_ids |-> rest.used_ids]

\* BICompiledRule.get_identifiers: the returned list and the used_ids after it.
BICompiledRule_get_identifiers(self, parent_id, used) ==
    LET name == <<self.properties.title>>
        own_id == <<FirstFreeNumber(parent_id, name, used, 1)>> \o name
        my_id == Append(parent_id, own_id)
        below == NodesIdentifiers(self.nodes, my_id, used \cup {my_id})
    IN  [idents |-> <<NodeIdentifierInfo(my_id, self)>> \o below.idents,
         used_ids |-> below.used_ids]

\* node.get_identifiers(parent_id, used_ids), by node kind.
get_identifiers(self, parent_id, used) ==
    CASE self.kind = "leaf" -> BICompiledLeaf_get_identifiers(self, parent_id, used)
      [] self.kind = "rule" -> BICompiledRule_get_identifiers(self, parent_id, used)

RECURSIVE EveryRuleHasLeaf(_)
\* Every rule of the tree has at least one leaf below it.
EveryRuleHasLeaf(n) ==
    n.kind = "rule" =>
        /\ LeavesOf(n) # {}
        /\ \A i \in 1..Len(n.nodes) : EveryRuleHasLeaf(n.nodes[i])

RECURSIVE SameShape(_, _)
\* The bundle b refers to the node n, and its nested bundles are those of the
\* nodes of n, one for each, in their order.
SameShape(n, b) ==
    /\ b.instance = n
    /\ Len(b.nested_results) = (IF n.kind = "rule" THEN Len(n.nodes) ELSE 0)
    /\ \A i \in 1..Len(b.nested_results) : SameShape(n.nodes[i], b.nested_results[i])

\* C25: with freeze_aggregations set and a tree of leaves and rules in which
\* every rule has a leaf below it, compute() returns a bundle for every node
\* whatever the snapshot holds: the bundle tree has the shape and the child
\* order of the tree, and every bundle refers to the node it was computed from.
C25_FrozenKeepsShape ==
    (/\ op = "rule.compute"
     /\ pc = "done"
     /\ computation_options.freeze_aggregations
     /\ EveryRuleHasLeaf(node))
        => /\ result # None
           /\ SameShape(node, The(result))

\* A frozen tree with two sibling sub-rules and a host leaf was computed
\* against the snapshot without hosts: every leaf reports "not found".
C25_Witness ==
    /\ op = "rule.compute"
    /\ pc = "done"
    /\ computation_options.freeze_aggregations
    /\ bi_status_fetcher.states = NoHosts
    /\ Len(node.nodes) = 3
    /\ node.nodes[1].kind = "rule"
    /\ result # None
    /\ Len(The(result).nested_results) = 3
    /\ The(result).nested_results[1].nested_results[1].actual_result.state = 3
    /\ The(result).nested_results[3].actual_result.output = "Host  not found"

(***************************************************************************)
(* Specification of identifier passes                                      *)
(***************************************************************************)
\* The first service's namesake on the other site.
LeafA2 == BICompiledLeaf(HostName, OtherSite, Some(ServiceName))

IdentLeaves == {LeafH, LeafA, LeafA2}

IdentSubRules ==
    {Rule(title, nodes, "worst") :
        title \in {"Website", "Backend"},
        nodes \in {<<>>, <<LeafA>>, <<LeafA, LeafA2>>}}

\* Lists of up to MaxSiblings leaves and sub-rules.
IdentNodeLists ==
    UNION {[1..n -> IdentLeaves \cup IdentSubRules] : n \in 0..MaxSiblings}

\* Rules over such lists, alone or as the only child of another rule.
IdentTrees ==
    {Rule("Website", nodes, "worst") : nodes \in IdentNodeLists}
    \cup {Rule("Website", <<Rule("Website", nodes, "worst")>>, "worst") :
            nodes \in IdentNodeLists}

InitIdentifiers ==
    /\ op = "get_identifiers"
    /\ pc = "call"
    /\ node \in IdentTrees
    /\ branches = <<>>
    /\ computation_options \in {o \in TreeOptions :
                                  ~o.freeze_aggregations /\ ~o.escalate_downtimes_as_warn}
    /\ bi_status_fetcher = Fetcher(NoHosts, EmptyDict)
    /\ use_assumed = FALSE
    /\ result = None
    /\ aggregation_results = <<>>
    /\ idents = <<>>
    /\ previous_idents = <<>>
    /\ used_ids = {}
    /\ services_of_host = EmptyDict
    /\ bi_searcher = EmptyDict
    /\ postprocessed_nodes = <<>>
    /\ uncompiled = None
    /\ previous_nodes = <<>>
    /\ NoRenderingNoLocalCheck

\* Identifiers that no pass over these trees from an empty set returns for
\* sure: the root numbered 2, and a second sub-rule "Backend".
OtherIds ==
    {<<<<2, "Website">>>>, <<<<1, "Website">>, <<2, "Backend">>>>}

\* The used_ids a caller may pass to the second call: a new empty set, the set
\* the first call filled, one identifier of that set, or another identifier.
PassedSets(filled) ==
    {{}, filled} \cup {{id} : id \in filled \cup OtherIds}

\* node.get_identifiers((), used_ids) on the root of the tree; the call adds to
\* the caller's set.
GetIdentifiers ==
    /\ op = "get_identifiers"
    /\ pc = "call"
    /\ pc' = "done"
    /\ LET pass == get_identifiers(node, <<>>, used_ids)
       IN  /\ idents' = pass.idents
           /\ used_ids' = pass.used_ids
    /\ UNCHANGED <<op, node, previous_idents, compute_vars, compile_vars, local_vars>>

\* The caller keeps the list of the first call and takes the set it passes to
\* the second.
TakeUsedIds ==
    /\ op = "get_identifiers"
    /\ pc = "done"
    /\ pc' = "call_again"
    /\ previous_idents' = idents
    /\ used_ids' \in PassedSets(used_ids)
    /\ UNCHANGED <<op, node, idents, compute_vars, compile_vars, local_vars>>

\* node.get_identifiers((), used_ids) again, on the tree as the first call left
\* it, with the set the caller took.
GetIdentifiersAgain ==
    /\ op = "get_identifiers"
    /\ pc = "call_again"
    /\ pc' = "again"
    /\ LET pass == get_identifiers(node, <<>>, used_ids)
       IN  /\ idents' = pass.idents
           /\ used_ids' = pass.used_ids
    /\ UNCHANGED <<op, node, previous_idents, compute_vars, compile_vars, local_vars>>

NextIdentifiers == GetIdentifiers \/ TakeUsedIds \/ GetIdentifiersAgain

SpecIdentifiers == InitIdentifiers /\ [][NextIdentifiers]_vars

(***************************************************************************)
(* Properties of identifier passes (checked under SpecIdentifiers)         *)
(***************************************************************************)
\* The disambiguating name of a node: the title of a rule, the host and the
\* service of a leaf.
NameOf(n) ==
    IF n.kind = "leaf"
    THEN <<n.host_name, n.service_description>>
    ELSE <<n.properties.title>>

\* The sequence number of the i-th child: one more than the number of earlier
\* siblings with its name.
NumberAmongSiblings(nodes, i) ==
    1 + Cardinality({j \in 1..(i - 1) : NameOf(nodes[j]) = NameOf(nodes[i])})

RECURSIVE NumberedIdentifiers(_, _, _)
RECURSIVE NumberedIdentifiersOfChildren(_, _, _)
\* The identifier of node n, numbered k under parent_id, followed by those of
\* the nodes below it, in depth-first order.
NumberedIdentifiers(n, parent_id, k) ==
    LET my_id == Append(parent_id, <<k>> \o NameOf(n))
    IN  <<[id |-> my_id, node |-> n]>>
        \o (IF n.kind = "leaf"
            THEN <<>>
            ELSE NumberedIdentifiersOfChildren(n.nodes, my_id, 1))

\* Those of the children from the i-th on.
NumberedIdentifiersOfChildren(nodes, my_id, i) ==
    IF i > Len(nodes)
    THEN <<>>
    ELSE NumberedIdentifiers(nodes[i], my_id, NumberAmongSiblings(nodes, i))
         \o NumberedIdentifiersOfChildren(nodes, my_id, i + 1)

\* C16: in one get_identifiers pass over a tree with one used_ids set, all the
\* returned identifiers are pairwise distinct and every rule and leaf of the
\* tree gets exactly one; siblings with the same disambiguating name (the same
\* rule title, or the same host and service) get that name with the sequence
\* numbers 1, 2, 3, ... in child order, and the identifier of a child is its
\* parent's identifier extended by one segment.
C16_IdentifiersUnique ==
    (op = "get_identifiers" /\ pc = "done")
        => /\ \A i, j \in 1..Len(idents) : i # j => idents[i].id # idents[j].id
           /\ idents = NumberedIdentifiers(node, <<>>, 1)
           /\ used_ids = {idents[i].id : i \in 1..Len(idents)}

\* C16 happens: three sub-rules of one title are numbered 1, 2, 3 in child
\* order, and below the first of them two leaves of one host and service (on
\* two sites) are numbered 1, 2.
C16_Witness ==
    /\ op = "get_identifiers"
    /\ pc = "done"
    /\ \E i, j, k \in 1..Len(idents) :
          /\ i < j /\ j < k
          /\ idents[i].id = <<<<1, "Website">>, <<1, "Backend">>>>
          /\ idents[j].id = <<<<1, "Website">>, <<2, "Backend">>>>
          /\ idents[k].id = <<<<1, "Website">>, <<3, "Backend">>>>
    /\ \E a, b \in 1..Len(idents) :
          /\ a < b
          /\ idents[a].id =
                 <<<<1, "Website">>, <<1, "Backend">>, <<1, HostName, Some(ServiceName)>>>>
          /\ idents[b].id =
                 <<<<1, "Website">>, <<1, "Backend">>, <<2, HostName, Some(ServiceName)>>>>
          /\ idents[a].node.site_id # idents[b].node.site_id

\* The identifiers of a list of (identifier, node) pairs.
IdsOf(infos) == {infos[i].id : i \in 1..Len(infos)}

\* C17 as claimed: calling get_identifiers twice on a structurally unchanged
\* tree yields the identical sequence of (identifier, node) pairs both times,
\* whatever set the second call is given.
C17_AlwaysStable ==
    (op = "get_identifiers" /\ pc = "again") => idents = previous_idents

\* C17: the second call of get_identifiers on a structurally unchanged tree,
\* after a first call with an empty used_ids, yields the sequence of
\* (identifier, node) pairs of the first call iff the used_ids it is given
\* holds none of the identifiers the first call returned, as a new empty set
\* does; given the set the first call filled, it numbers the root 2.
C17_IdentifiersStable ==
    [][(op = "get_identifiers" /\ pc = "call_again" /\ pc' = "again")
          => /\ (idents' = previous_idents) <=> (used_ids \cap IdsOf(previous_idents) = {})
             /\ used_ids = {} => idents' = NumberedIdentifiers(node, <<>>, 1)
             /\ used_ids = IdsOf(previous_idents)
                    => idents' = NumberedIdentifiers(node, <<>>, 2)]_vars

\* C17 happens: the second call was given a set with an identifier that the
\* first call had not returned, and it numbered the same-named siblings as the
\* first call had.
C17_Witness ==
    /\ op = "get_identifiers"
    /\ pc = "again"
    /\ previous_idents # <<>>
    /\ idents = previous_idents
    /\ used_ids # IdsOf(idents)
    /\ \E i \in 1..Len(idents) :
          /\ Len(idents[i].id) = 3
          /\ idents[i].id[3][1] = 2

(***************************************************************************)
(* Compilation: compile_postprocess.  Names that are compared or joined    *)
(* are sequences of character codes, so that str comparison and ":".join   *)
(* are computed as Python computes them.                                   *)
(***************************************************************************)
MaxHosts == 2

\* The code of ":".
Colon == 58

RECURSIVE StrLess(_, _)
\* str.__lt__: a < b, by code point, a proper prefix first.
StrLess(a, b) ==
    IF b = <<>> THEN FALSE
    ELSE IF a = <<>> THEN TRUE
    ELSE IF a[1] < b[1] THEN TRUE
    ELSE IF a[1] > b[1] THEN FALSE
    ELSE StrLess(Tail(a), Tail(b))

\* Mutant: the service description is left out of the comparable name.
_get_comparable_name_NoService(self) ==
    self.site_id \o <<Colon>> \o self.host_name \o <<Colon>>

\* BICompiledLeaf._get_comparable_name:
\* ":".join([self.site_id or "", self.host_name, self.service_description or ""])
_get_comparable_name(self) ==
    self.site_id \o <<Colon>> \o self.host_name \o <<Colon>>
    \o (IF self.service_description = None THEN <<>> ELSE The(self.service_description))

\* ABCBICompiledNode.__lt__ (cmk.bi.lib): by comparable name.
__lt__(self, other) ==
    StrLess(_get_comparable_name(self), _get_comparable_name(other))

\* Mutant: the new node goes to the end of the list.
InsertSorted_AtEnd(x, sorted) ==
    Append(sorted, x)

RECURSIVE InsertSorted(_, _)
\* x inserted into a sorted list before the first node greater than x.
InsertSorted(x, sorted) ==
    IF sorted = <<>>
    THEN <<x>>
    ELSE IF __lt__(x, Head(sorted))
         THEN <<x>> \o sorted
         ELSE <<Head(sorted)>> \o InsertSorted(x, Tail(sorted))

RECURSIVE sort(_)
\* list.sort(): the stable order of the list under __lt__.
sort(list) ==
    IF list = <<>>
    THEN <<>>
    ELSE InsertSorted(list[Len(list)], sort(SubSeq(list, 1, Len(list) - 1)))

BIRemainingResult(host_names) ==
    [kind |-> "remaining", host_names |-> host_names, required_elements_cache |-> None]

\* Mutant: the services other nodes use are not taken out.
RemainingServices_All(host_name, soh, searcher) ==
    searcher[host_name].services

\* set(bi_searcher.hosts[host_name].services) - used_services
RemainingServices(host_name, soh, searcher) ==
    searcher[host_name].services
    \ (IF host_name \in DOMAIN soh THEN soh[host_name] ELSE {})

\* The orders in which the iteration over a set can deliver its elements: the
\* order of a Python set of str is not fixed by its elements.
Enumerations(S) ==
    {e \in [1..Cardinality(S) -> S] : \A x \in S : \E i \in DOMAIN e : e[i] = x}

RECURSIVE Iterations(_, _, _)
\* The iteration orders a run of compile_postprocess can meet: for each of the
\* hosts an order of set(bi_searcher.hosts[host_name].services) - used_services.
Iterations(hosts, soh, searcher) ==
    IF hosts = {}
    THEN {EmptyDict}
    ELSE LET host_name == CHOOSE h \in hosts : TRUE
         IN  {(host_name :> order) @@ others :
                 order \in Enumerations(RemainingServices(host_name, soh, searcher)),
                 others \in Iterations(hosts \ {host_name}, soh, searcher)}

\* The leaves appended for one host, its remaining services iterated in the
\* order `services`.
LeavesOfHost(host_name, searcher, services) ==
    [i \in 1..Len(services) |->
        BICompiledLeaf(host_name, searcher[host_name].site_id, Some(services[i]))]

RECURSIVE AppendedLeaves(_, _, _)
\* postprocessed_nodes before it is sorted, the set of remaining services of
\* host h iterated in the order iteration[h].
AppendedLeaves(host_names, searcher, iteration) ==
    IF host_names = <<>>
    THEN <<>>
    ELSE LeavesOfHost(Head(host_names), searcher, iteration[Head(host_names)])
         \o AppendedLeaves(Tail(host_names), searcher, iteration)

\* BIRemainingResult.compile_postprocess when the sets of remaining services are
\* iterated in the orders `iteration`, one of Iterations(hosts, soh, searcher).
BIRemainingResult_compile_postprocess(self, bi_branch_root, soh, searcher, iteration) ==
    sort(AppendedLeaves(self.host_names, searcher, iteration))

BICompiledLeaf_compile_postprocess(self, bi_branch_root, soh, searcher, iteration) ==
    <<self>>

RECURSIVE compile_postprocess(_, _, _, _, _)

\* Mutant: the nodes of a sub-rule are returned as they are.
PostprocessedNode_RulesAsTheyAre(n, bi_branch_root, soh, searcher, iteration) ==
    IF n.kind = "rule"
    THEN <<n>>
    ELSE compile_postprocess(n, bi_branch_root, soh, searcher, iteration)

\* node.compile_postprocess(bi_branch_root, services_of_host, bi_searcher) for
\* one node of self.nodes.
PostprocessedNode(n, bi_branch_root, soh, searcher, iteration) ==
    compile_postprocess(n, bi_branch_root, soh, searcher, iteration)

RECURSIVE PostprocessedNodes(_, _, _, _, _)
\* [res for node in self.nodes for res in node.compile_postprocess(...)]
PostprocessedNodes(nodes, bi_branch_root, soh, searcher, iteration) ==
    IF nodes = <<>>
    THEN <<>>
    ELSE PostprocessedNode(Head(nodes), bi_branch_root, soh, searcher, iteration)
         \o PostprocessedNodes(Tail(nodes), bi_branch_root, soh, searcher, iteration)

\* Mutant: the cache of the rule is not cleared.
BICompiledRule_compile_postprocess_CacheKept(self, bi_branch_root, soh, searcher, iteration) ==
    <<[self EXCEPT !.nodes = PostprocessedNodes(self.nodes, bi_branch_root, soh, searcher,
                                                iteration)]>>

\* BICompiledRule.compile_postprocess: [self], with self.nodes assigned and
\* the cache of required_elements cleared.
BICompiledRule_compile_postprocess(self, bi_branch_root, soh, searcher, iteration) ==
    <<[self EXCEPT !.nodes = PostprocessedNodes(self.nodes, bi_branch_root, soh, searcher,
                                                iteration),
                   !.required_elements_cache = cache_clear]>>

\* node.compile_postprocess(...), by node kind.
compile_postprocess(self, bi_branch_root, soh, searcher, iteration) ==
    CASE self.kind = "leaf" ->
             BICompiledLeaf_compile_postprocess(self, bi_branch_root, soh, searcher, iteration)
      [] self.kind = "rule" ->
             BICompiledRule_compile_postprocess(self, bi_branch_root, soh, searcher, iteration)
      [] self.kind = "remaining" ->
             BIRemainingResult_compile_postprocess(self, bi_branch_root, soh, searcher, iteration)

RECURSIVE WildcardHosts(_)
\* The hosts of the wildcard nodes of a tree: the hosts whose sets of remaining
\* services a compile_postprocess of the tree iterates.
WildcardHosts(n) ==
    CASE n.kind = "leaf" -> {}
      [] n.kind = "remaining" -> SeqRange(n.host_names)
      [] n.kind = "rule" -> UNION {WildcardHosts(n.nodes[i]) : i \in DOMAIN n.nodes}

(***************************************************************************)
(* Specification of compilations                                           *)
(***************************************************************************)
\* Host names "a", "a1" and "b".
HostPool == <<<<97>>, <<97, 49>>, <<98>>>>

\* The hosts the searcher knows.
KnownHosts == {HostPool[i] : i \in 1..MaxHosts}

\* Service names "c", "c:d" and "d".
ServiceC == <<99>>
ServiceCD == <<99, Colon, 100>>
ServiceD == <<100>>

\* The sites of the known hosts: all on "s1", or the first host on "s2".
SiteAssignments ==
    {[h \in KnownHosts |-> <<115, 49>>],
     [h \in KnownHosts |-> IF h = HostPool[1] THEN <<115, 50>> ELSE <<115, 49>>]}

\* bi_searcher.hosts: per known host its site and its services.
Searchers ==
    {[h \in KnownHosts |-> [site_id |-> sites[h], services |-> services[h]]] :
        sites \in SiteAssignments,
        services \in [KnownHosts -> {{}, {ServiceC}, {ServiceC, ServiceCD, ServiceD}}]}

\* services_of_host: for some hosts, the services other nodes use.
UsedServices ==
    UNION {[K -> {{ServiceC}, {ServiceC, ServiceD}}] : K \in SUBSET KnownHosts}

\* Lists of distinct known hosts.
HostNameLists ==
    {l \in UNION {[1..n -> KnownHosts] : n \in 0..MaxHosts} :
        \A i, j \in 1..Len(l) : i # j => l[i] # l[j]}

Remainings == {BIRemainingResult(l) : l \in HostNameLists}

\* The wildcard of no host and the wildcard of every known host.
BoundaryRemainings ==
    {BIRemainingResult(<<>>), BIRemainingResult([i \in 1..MaxHosts |-> HostPool[i]])}

CompileLeafH == BICompiledLeaf(HostPool[1], <<115, 49>>, None)
CompileLeafC == BICompiledLeaf(HostPool[1], <<115, 49>>, Some(ServiceC))

\* Rules with wildcards before, after and between leaves and sub-rules, and
\* wildcards up to three rules deep.
CompileTrees ==
    {Rule("Website", <<CompileLeafH, w>>, "worst") : w \in Remainings}
    \cup {Rule("Website", <<w, CompileLeafC, CompileLeafH>>, "worst") : w \in Remainings}
    \cup {Rule("Website",
               <<Rule("Backend", <<CompileLeafC, w1>>, "worst"), w2, CompileLeafH>>,
               "worst") : w1 \in Remainings, w2 \in BoundaryRemainings}
    \cup {Rule("Website",
               <<Rule("Backend", <<Rule("Frontend", <<w>>, "best")>>, "worst")>>,
               "worst") : w \in Remainings}

\* The services_of_host of tree compilations: none, or the first service of
\* every known host.
TreeUsedServices == {EmptyDict, [h \in KnownHosts |-> {ServiceC}]}

InitCompile ==
    /\ pc = "call"
    /\ branches = <<>>
    /\ computation_options \in {o \in TreeOptions :
                                  ~o.freeze_aggregations /\ ~o.escalate_downtimes_as_warn}
    /\ bi_status_fetcher = Fetcher(NoHosts, EmptyDict)
    /\ use_assumed = FALSE
    /\ result = None
    /\ aggregation_results = <<>>
    /\ idents = <<>>
    /\ previous_idents = <<>>
    /\ used_ids = {}
    /\ postprocessed_nodes = <<>>
    /\ previous_nodes = <<>>
    /\ NoRenderingNoLocalCheck
    /\ bi_searcher \in Searchers
    /\ \/ /\ op = "remaining.compile_postprocess"
          /\ node \in Remainings
          /\ services_of_host \in UsedServices
       \/ /\ op = "rule.compile_postprocess"
          /\ node \in CompileTrees
          /\ services_of_host \in TreeUsedServices
    /\ uncompiled = Some(node)

\* BIRemainingResult.compile_postprocess on the wildcard node, under any
\* iteration orders of the sets of remaining services.
RemainingCompilePostprocess ==
    /\ op = "remaining.compile_postprocess"
    /\ pc = "call"
    /\ pc' = "done"
    /\ \E iteration \in Iterations(WildcardHosts(node), services_of_host, bi_searcher) :
           postprocessed_nodes' =
               BIRemainingResult_compile_postprocess(
                   node, node, services_of_host, bi_searcher, iteration)
    /\ UNCHANGED <<op, node, services_of_host, bi_searcher, uncompiled, previous_nodes,
                   compute_vars, identifier_vars, local_vars>>

\* BICompiledRule.compile_postprocess on the branch root: the rules of the
\* tree get their nodes assigned, and [self] is returned; the wildcard nodes
\* meet any iteration orders of the sets of remaining services.
RuleCompilePostprocess ==
    /\ op = "rule.compile_postprocess"
    /\ pc = "call"
    /\ pc' = "done"
    /\ \E iteration \in Iterations(WildcardHosts(node), services_of_host, bi_searcher) :
           /\ postprocessed_nodes' =
                  BICompiledRule_compile_postprocess(
                      node, node, services_of_host, bi_searcher, iteration)
           /\ node' = postprocessed_nodes'[1]
    /\ UNCHANGED <<op, services_of_host, bi_searcher, uncompiled, previous_nodes,
                   compute_vars, identifier_vars, local_vars>>

NextCompile == RemainingCompilePostprocess \/ RuleCompilePostprocess

SpecCompile == InitCompile /\ [][NextCompile]_vars

(***************************************************************************)
(* Specification of repeated wildcard expansions: one wildcard node is     *)
(* expanded twice against the same searcher and the same services_of_host, *)
(* and each expansion meets its own iteration orders of the sets of        *)
(* remaining services.                                                     *)
(***************************************************************************)
InitExpansion ==
    /\ op = "remaining.compile_postprocess"
    /\ pc = "call"
    /\ node \in Remainings
    /\ services_of_host \in TreeUsedServices
    /\ bi_searcher \in Searchers
    /\ uncompiled = Some(node)
    /\ postprocessed_nodes = <<>>
    /\ previous_nodes = <<>>
    /\ branches = <<>>
    /\ computation_options \in {o \in TreeOptions :
                                  ~o.freeze_aggregations /\ ~o.escalate_downtimes_as_warn}
    /\ bi_status_fetcher = Fetcher(NoHosts, EmptyDict)
    /\ use_assumed = FALSE
    /\ result = None
    /\ aggregation_results = <<>>
    /\ idents = <<>>
    /\ previous_idents = <<>>
    /\ used_ids = {}
    /\ NoRenderingNoLocalCheck

\* BIRemainingResult.compile_postprocess on the wildcard node, under any
\* iteration orders.
Expand ==
    /\ pc = "call"
    /\ pc' = "done"
    /\ \E iteration \in Iterations(WildcardHosts(node), services_of_host, bi_searcher) :
           postprocessed_nodes' =
               BIRemainingResult_compile_postprocess(
                   node, node, services_of_host, bi_searcher, iteration)
    /\ UNCHANGED <<op, node, services_of_host, bi_searcher, uncompiled, previous_nodes,
                   compute_vars, identifier_vars, local_vars>>

\* The same call once more, under any iteration orders.
ExpandAgain ==
    /\ pc = "done"
    /\ pc' = "again"
    /\ previous_nodes' = postprocessed_nodes
    /\ \E iteration \in Iterations(WildcardHosts(node), services_of_host, bi_searcher) :
           postprocessed_nodes' =
               BIRemainingResult_compile_postprocess(
                   node, node, services_of_host, bi_searcher, iteration)
    /\ UNCHANGED <<op, node, services_of_host, bi_searcher, uncompiled,
                   compute_vars, identifier_vars, local_vars>>

NextExpansion == Expand \/ ExpandAgain

SpecExpansion == InitExpansion /\ [][NextExpansion]_vars

\* C21: expanding the same wildcard node against the same searcher and the
\* same services_of_host twice yields the same list of leaves in the same
\* order, whatever order the services of a host are iterated in.
C21_ExpansionDeterministic ==
    pc = "again" => postprocessed_nodes = previous_nodes

\* Two expansions of a wildcard of two hosts, one of them with three remaining
\* services (six iteration orders), have finished.
C21_Witness ==
    /\ pc = "again"
    /\ Len(node.host_names) = 2
    /\ \E h \in SeqRange(node.host_names) :
           Cardinality(RemainingServices(h, services_of_host, bi_searcher)) = 3
    /\ Len(previous_nodes) >= 4

(***************************************************************************)
(* Properties of compilations (checked under SpecCompile)                  *)
(***************************************************************************)
RECURSIVE OnlyLeavesAndRules(_)
\* The tree holds leaves and rules only, at every depth.
OnlyLeavesAndRules(n) ==
    \/ n.kind = "leaf"
    \/ /\ n.kind = "rule"
       /\ \A i \in 1..Len(n.nodes) : OnlyLeavesAndRules(n.nodes[i])

\* The leaves and rules of a list of nodes, in order.
LeavesAndRules(nodes) == SelectSeq(nodes, LAMBDA n : n.kind # "remaining")

RECURSIVE StillPresent(_, _)
RECURSIVE StillPresentInOrder(_, _)
\* Node `after` is what became of the leaf or rule `before`: the same leaf, or
\* the same rule with the leaves and rules it had still below it, in order.
StillPresent(before, after) ==
    IF before.kind = "leaf"
    THEN after = before
    ELSE /\ after.kind = "rule"
         /\ after.properties = before.properties
         /\ after.aggregation_function = before.aggregation_function
         /\ StillPresentInOrder(LeavesAndRules(before.nodes), after.nodes)

\* Every node of the list `before` is still present in the list `after`, in the
\* same relative order.
StillPresentInOrder(before, after) ==
    IF before = <<>> THEN TRUE
    ELSE IF after = <<>> THEN FALSE
    ELSE IF StillPresent(Head(before), Head(after))
         THEN StillPresentInOrder(Tail(before), Tail(after))
         ELSE StillPresentInOrder(before, Tail(after))

RECURSIVE CountNodes(_)
\* The number of leaves and rules of a tree.
CountNodes(n) ==
    IF n.kind = "remaining" THEN 0
    ELSE IF n.kind = "leaf" THEN 1
    ELSE LET below[i \in 0..Len(n.nodes)] ==
                 IF i = 0 THEN 0 ELSE below[i - 1] + CountNodes(n.nodes[i])
         IN  1 + below[Len(n.nodes)]

\* C18: after compile_postprocess has run on a branch root, the tree below it
\* holds leaves and rules only, at every depth: every BIRemainingResult, also
\* one inside sub-rules and one that expands to no leaf, has been replaced, and
\* every leaf and rule that was there before is still there, in the same
\* relative order.
C18_OnlyLeavesAndRules ==
    (op = "rule.compile_postprocess" /\ pc = "done")
        => /\ OnlyLeavesAndRules(node)
           /\ StillPresent(The(uncompiled), node)
           /\ postprocessed_nodes = <<node>>

\* C18 happens: the root held a wildcard that expands to no leaf, and a
\* sub-rule held one that expanded to two leaves or more behind its own leaf.
C18_Witness ==
    /\ op = "rule.compile_postprocess"
    /\ pc = "done"
    /\ Len(The(uncompiled).nodes) = 3
    /\ The(uncompiled).nodes[2] = BIRemainingResult(<<>>)
    /\ The(uncompiled).nodes[1].nodes[2].kind = "remaining"
    /\ Len(node.nodes) = 2
    /\ node.nodes[2] = CompileLeafH
    /\ Len(node.nodes[1].nodes) >= 3
    /\ node.nodes[1].nodes[1] = CompileLeafC
    /\ CountNodes(node) > CountNodes(The(uncompiled))
    /\ OnlyLeavesAndRules(node)

\* The services of the host that the used-services map holds.
UsedServicesOf(host_name) ==
    IF host_name \in DOMAIN services_of_host THEN services_of_host[host_name] ELSE {}

\* The (host, service) pairs of the wildcard node whose service the topology
\* index knows and the used-services map does not hold.
RemainingPairs ==
    {p \in SeqRange(node.host_names) \X {ServiceC, ServiceCD, ServiceD} :
        /\ p[2] \in bi_searcher[p[1]].services
        /\ p[2] \notin UsedServicesOf(p[1])}

\* How often a node occurs in a list.
Occurrences(list, n) == Cardinality({i \in 1..Len(list) : list[i] = n})

\* C19: for each host of a BIRemainingResult, the expansion emits exactly one
\* leaf, carrying the host's site from the topology index, per service of that
\* host in the index that is not in the used-services map for that host, and
\* nothing else: never a leaf for a service in the used-services map.
C19_ExpansionContent ==
    (op = "remaining.compile_postprocess" /\ pc = "done")
        => /\ \A p \in RemainingPairs :
                  Occurrences(postprocessed_nodes,
                              BICompiledLeaf(p[1], bi_searcher[p[1]].site_id, Some(p[2]))) = 1
           /\ Len(postprocessed_nodes) = Cardinality(RemainingPairs)
           /\ \A i \in 1..Len(postprocessed_nodes) :
                  LET leaf == postprocessed_nodes[i]
                  IN  /\ leaf.kind = "leaf"
                      /\ leaf.service_description # None
                      /\ The(leaf.service_description) \notin UsedServicesOf(leaf.host_name)

\* C19 happens: a wildcard over two hosts on two sites was expanded; the map
\* holds a service of the first host and nothing for the second.
C19_Witness ==
    /\ op = "remaining.compile_postprocess"
    /\ pc = "done"
    /\ Len(node.host_names) = 2
    /\ bi_searcher[node.host_names[1]].site_id # bi_searcher[node.host_names[2]].site_id
    /\ UsedServicesOf(node.host_names[1]) \cap bi_searcher[node.host_names[1]].services # {}
    /\ node.host_names[2] \notin DOMAIN services_of_host
    /\ \E i, j \in 1..Len(postprocessed_nodes) :
          /\ postprocessed_nodes[i].host_name = node.host_names[1]
          /\ postprocessed_nodes[j].host_name = node.host_names[2]

\* Leaf a is not after leaf b in the order by host name first and service name
\* second.
HostThenService(a, b) ==
    \/ StrLess(a.host_name, b.host_name)
    \/ /\ a.host_name = b.host_name
       /\ ~StrLess(The(b.service_description), The(a.service_description))

\* C20 as stated: the leaves emitted by one BIRemainingResult are ordered by
\* host name first and by service name second, for any set of hosts (hosts on
\* different sites and names containing ":" included).
C20_HostThenService_Original ==
    (op = "remaining.compile_postprocess" /\ pc = "done")
        => \A i, j \in 1..Len(postprocessed_nodes) :
               i < j => HostThenService(postprocessed_nodes[i], postprocessed_nodes[j])

\* C20, amended: the leaves emitted by one BIRemainingResult are in ascending
\* order of their comparable names, the strings "<site>:<host>:<service>"
\* compared as strings (by site first).
C20_ComparableNameOrder ==
    (op = "remaining.compile_postprocess" /\ pc = "done")
        => \A i, j \in 1..Len(postprocessed_nodes) :
               i < j => ~StrLess(_get_comparable_name(postprocessed_nodes[j]),
                                 _get_comparable_name(postprocessed_nodes[i]))

\* C20 happens: the leaves of a host on the second site follow those of a host
\* on the first site whose name comes later, a service name holds ":".
C20_Witness ==
    /\ op = "remaining.compile_postprocess"
    /\ pc = "done"
    /\ \E i, j \in 1..Len(postprocessed_nodes) :
          /\ i < j
          /\ StrLess(postprocessed_nodes[i].site_id, postprocessed_nodes[j].site_id)
          /\ StrLess(postprocessed_nodes[j].host_name, postprocessed_nodes[i].host_name)
    /\ \E i \in 1..Len(postprocessed_nodes) :
          postprocessed_nodes[i].service_description = Some(ServiceCD)
    /\ \A i \in 1..(Len(postprocessed_nodes) - 1) :
          ~StrLess(_get_comparable_name(postprocessed_nodes[i + 1]),
                   _get_comparable_name(postprocessed_nodes[i]))

(***************************************************************************)
(* Specification of the required_elements cache: required_elements() is    *)
(* called on any node of a branch, any number of times, before and after   *)
(* and between two runs of compile_postprocess on the branch root.         *)
(***************************************************************************)
RECURSIVE Paths(_)
\* The nodes of a tree, each as the list of child positions leading to it.
Paths(n) ==
    {<<>>} \cup (IF n.kind = "rule"
                 THEN UNION {{<<i>> \o p : p \in Paths(n.nodes[i])} : i \in 1..Len(n.nodes)}
                 ELSE {})

RECURSIVE NodeAt(_, _)
NodeAt(n, path) ==
    IF path = <<>> THEN n ELSE NodeAt(n.nodes[Head(path)], Tail(path))

RECURSIVE ReplaceAt(_, _, _)
\* The tree in which the object at `path` has become `new`.
ReplaceAt(n, path, new) ==
    IF path = <<>>
    THEN new
    ELSE [n EXCEPT !.nodes[Head(path)] = ReplaceAt(n.nodes[Head(path)], Tail(path), new)]

\* Searchers of hosts on one site, each host with no service or with two.
CacheSearchers ==
    [KnownHosts -> [site_id : {<<115, 49>>}, services : {{}, {ServiceC, ServiceD}}]]

\* Branches with a wildcard below the root and with a wildcard in a sub-rule.
CacheTrees ==
    {Rule("Website", <<w, CompileLeafC>>, "worst") : w \in BoundaryRemainings}
    \cup {Rule("Website", <<Rule("Backend", <<CompileLeafC, w>>, "worst"), CompileLeafH>>,
                "worst") : w \in BoundaryRemainings}

InitCache ==
    /\ op = "required_elements"
    /\ pc = "call"
    /\ node \in CacheTrees
    /\ services_of_host \in TreeUsedServices
    /\ bi_searcher \in CacheSearchers
    /\ uncompiled = None
    /\ postprocessed_nodes = <<>>
    /\ previous_nodes = <<>>
    /\ branches = <<>>
    /\ computation_options \in {o \in TreeOptions :
                                  ~o.freeze_aggregations /\ ~o.escalate_downtimes_as_warn}
    /\ bi_status_fetcher = Fetcher(NoHosts, EmptyDict)
    /\ use_assumed = FALSE
    /\ result = None
    /\ aggregation_results = <<>>
    /\ idents = <<>>
    /\ previous_idents = <<>>
    /\ used_ids = {}
    /\ NoRenderingNoLocalCheck

\* required_elements() on one node of the branch.
RequiredElements ==
    /\ \E path \in Paths(node) :
           node' = ReplaceAt(node, path, required_elements_Cached(NodeAt(node, path)))
    /\ UNCHANGED <<op, pc, compute_vars, identifier_vars, compile_vars, local_vars>>

\* compile_postprocess on the branch root, for the first time.
CachePostprocess ==
    /\ pc = "call"
    /\ pc' = "done"
    /\ uncompiled' = Some(node)
    /\ \E iteration \in Iterations(WildcardHosts(node), services_of_host, bi_searcher) :
           /\ postprocessed_nodes' =
                  BICompiledRule_compile_postprocess(
                      node, node, services_of_host, bi_searcher, iteration)
           /\ node' = postprocessed_nodes'[1]
    /\ UNCHANGED <<op, services_of_host, bi_searcher, previous_nodes,
                   compute_vars, identifier_vars, local_vars>>

\* compile_postprocess on the branch root once more.
CachePostprocessAgain ==
    /\ pc = "done"
    /\ pc' = "again"
    /\ previous_nodes' = postprocessed_nodes
    /\ \E iteration \in Iterations(WildcardHosts(node), services_of_host, bi_searcher) :
           /\ postprocessed_nodes' =
                  BICompiledRule_compile_postprocess(
                      node, node, services_of_host, bi_searcher, iteration)
           /\ node' = postprocessed_nodes'[1]
    /\ UNCHANGED <<op, services_of_host, bi_searcher, uncompiled,
                   compute_vars, identifier_vars, local_vars>>

NextCache == RequiredElements \/ CachePostprocess \/ CachePostprocessAgain

SpecCache == InitCache /\ [][NextCache]_vars

\* BICompiledLeaf.parse_schema(schema_config): the three fields of the leaf
\* are assigned; the cache of required_elements is left as it is.
parse_schema(self, schema_config) ==
    [self EXCEPT !.site_id = schema_config.site_id,
                 !.host_name = schema_config.host_name,
                 !.service_description = schema_config.service_description]

\* The schema configurations of leaves: the service "d" of a known host.
SchemaConfigs ==
    [site_id : {<<115, 49>>},
     host_name : KnownHosts,
     service_description : {Some(ServiceD)}]

\* parse_schema on one leaf of the branch.  One such call is followed per
\* behaviour: op records that it was made.
ParseSchema ==
    /\ op = "required_elements"
    /\ op' = "parse_schema"
    /\ \E path \in Paths(node), schema_config \in SchemaConfigs :
           /\ NodeAt(node, path).kind = "leaf"
           /\ node' = ReplaceAt(node, path, parse_schema(NodeAt(node, path), schema_config))
    /\ UNCHANGED <<pc, compute_vars, identifier_vars, compile_vars, local_vars>>

NextSchema == NextCache \/ ParseSchema

\* The branch under required_elements, compile_postprocess and parse_schema
\* calls.  A leaf memo filled before a parse_schema outlives it: the cache
\* correctness of SpecCache is a property of the calls of NextCache only.
SpecSchema == InitCache /\ [][NextSchema]_vars

RECURSIVE ElementsBelow(_)
\* The (site, host, service) elements of the leaves below a node, read off the
\* tree as it is.
ElementsBelow(n) ==
    CASE n.kind = "leaf" -> {<<n.site_id, n.host_name, n.service_description>>}
      [] n.kind = "rule" -> UNION {ElementsBelow(n.nodes[i]) : i \in 1..Len(n.nodes)}
      [] n.kind = "remaining" -> {}

\* C22: whatever required_elements() calls and compile_postprocess runs on the
\* branch root have happened, required_elements() of every rule of the branch
\* returns exactly the elements of the leaves that are below it now; a value
\* kept from before an expansion is not returned after it.
C22_CacheCorrect ==
    \A path \in Paths(node) :
        NodeAt(node, path).kind = "rule"
            => required_elements(NodeAt(node, path)) = ElementsBelow(NodeAt(node, path))

\* The root and its sub-rule kept their required elements before the wildcard
\* of the sub-rule was expanded into leaves, and keep other ones after it.
C22_Witness ==
    /\ pc \in {"done", "again"}
    /\ uncompiled # None
    /\ LET before == The(uncompiled)
       IN  /\ before.nodes[1].kind = "rule"
           /\ before.required_elements_cache # None
           /\ before.nodes[1].required_elements_cache # None
           /\ Len(node.nodes[1].nodes) > Len(before.nodes[1].nodes)
           /\ node.required_elements_cache # None
           /\ node.nodes[1].required_elements_cache # None
           /\ node.required_elements_cache # before.required_elements_cache
           /\ node.nodes[1].required_elements_cache
                  # before.nodes[1].required_elements_cache

(***************************************************************************)
(* Specification of branches computed side by side: every branch has a     *)
(* worker that runs the body of the loop of compute_branches on it, first  *)
(* required_elements() and then compute(), and the steps of the workers    *)
(* interleave in any order.  compute() reads the snapshot and the nodes of *)
(* its own branch and assigns to nothing but its locals, so that one call  *)
(* is one step.  pc, use_assumed and branch_results hold one value per     *)
(* worker.                                                                 *)
(***************************************************************************)
\* Mutant: the workers share one compute_assumed_state.
compute_assumed_state_Shared(flags, i, value) ==
    [j \in DOMAIN flags |-> value]

\* compute_assumed_state = ..., a local of the worker of branch i.
compute_assumed_state_Local(flags, i, value) ==
    [flags EXCEPT ![i] = value]

ParallelBranchLists ==
    UNION {[1..n -> AssumedBranchTrees] : n \in 1..MaxBranches}

\* No host, or the host with its second service and any first service.
ParallelSnapshots ==
    {NoHosts}
    \cup {OneHost(HostRow(SteadyEntity(0, TRUE, 0, FALSE, TRUE),
                          Services(a, Some(SteadyEntity(0, TRUE, 0, FALSE, TRUE))))) :
            a \in Optional(AssumedEntities)}

InitParallel ==
    /\ idents = <<>>
    /\ previous_idents = <<>>
    /\ used_ids = {}
    /\ services_of_host = EmptyDict
    /\ bi_searcher = EmptyDict
    /\ postprocessed_nodes = <<>>
    /\ uncompiled = None
    /\ previous_nodes = <<>>
    /\ op = "compute"
    /\ node = Rule("Website", <<>>, "worst")
    /\ result = None
    /\ aggregation_results = <<>>
    /\ rendered = <<>>
    /\ string_table = <<>>
    /\ section = <<>>
    /\ discovery = <<>>
    /\ computation_options \in {o \in AssumedOptions : ~o.freeze_aggregations}
    /\ bi_status_fetcher \in [states : ParallelSnapshots, assumed_states : Overrides]
    /\ branches \in ParallelBranchLists
    /\ pc = [i \in DOMAIN branches |-> "call"]
    /\ use_assumed = [i \in DOMAIN branches |-> FALSE]
    /\ branch_results = [i \in DOMAIN branches |-> <<>>]

\* The worker of one branch calls required_elements() on it and decides
\* whether its branch needs the assumed pass.
BranchRequiredElements ==
    \E i \in DOMAIN branches :
        /\ pc[i] = "call"
        /\ pc' = [pc EXCEPT ![i] = "required"]
        /\ branches' = [branches EXCEPT ![i] = required_elements_Cached(branches[i])]
        /\ use_assumed' = compute_assumed_state_Local(
                              use_assumed, i,
                              compute_assumed_state(branches[i], bi_status_fetcher))
        /\ UNCHANGED <<op, node, computation_options, bi_status_fetcher, result,
                       aggregation_results, branch_results, rendered,
                       identifier_vars, compile_vars, local_vars>>

\* The worker of one branch calls compute() on it.
BranchCompute ==
    \E i \in DOMAIN branches :
        /\ pc[i] = "required"
        /\ pc' = [pc EXCEPT ![i] = "done"]
        /\ branch_results' =
               [branch_results EXCEPT
                   ![i] = BICompiledRule_compute(branches[i], computation_options,
                                                 bi_status_fetcher, use_assumed[i])]
        /\ UNCHANGED <<op, node, branches, computation_options, bi_status_fetcher,
                       use_assumed, result, aggregation_results, rendered,
                       identifier_vars, compile_vars, local_vars>>

NextParallel == BranchRequiredElements \/ BranchCompute

SpecParallel == InitParallel /\ [][NextParallel]_vars

RECURSIVE WithoutCaches(_)
\* A tree as it was built: no node keeps required elements.
WithoutCaches(n) ==
    IF n.kind = "rule"
    THEN [n EXCEPT !.nodes = [i \in 1..Len(n.nodes) |-> WithoutCaches(n.nodes[i])],
                   !.required_elements_cache = None]
    ELSE [n EXCEPT !.required_elements_cache = None]

\* No node of the tree `after` lost or changed what the same node of `before` kept.
CachesOnlyFilled(before, after) ==
    \A path \in Paths(before) :
        NodeAt(before, path).required_elements_cache # None
            => NodeAt(after, path).required_elements_cache
                   = NodeAt(before, path).required_elements_cache

\* What compute_branches returns for branch i when it is the only branch and no
\* other call is under way.
ComputedAlone(i) ==
    compute_branches(<<WithoutCaches(branches[i])>>, computation_options,
                     bi_status_fetcher)

\* A step leaves the snapshot and the options as they are, changes no child
\* list and no field of a node but an empty cache, which it may fill.
ComputeStepIsPure ==
    /\ bi_status_fetcher' = bi_status_fetcher
    /\ computation_options' = computation_options
    /\ DOMAIN branches' = DOMAIN branches
    /\ \A i \in DOMAIN branches :
          /\ WithoutCaches(branches'[i]) = WithoutCaches(branches[i])
          /\ CachesOnlyFilled(branches[i], branches'[i])

\* Every worker that has finished holds the bundle of its branch computed alone.
ComputedAsAlone ==
    \A i \in DOMAIN branches :
        pc[i] = "done" => branch_results[i] = ComputedAlone(i)

\* C23: compute() and compute_branches change no child list, clear no cache of
\* required elements (they at most fill an empty one) and do not modify the
\* snapshot; and however the calls on different branches interleave, every
\* branch gets the bundle it gets when it is computed alone.
C23_ComputeIsPure ==
    []ComputedAsAlone /\ [][ComputeStepIsPure]_vars

\* The worker of branch 2 has run from start to end while the worker of branch
\* 1 was between its two calls; branch 1 needs the assumed pass, branch 2 does
\* not, and both branches keep their required elements.
C23_Witness ==
    /\ op = "compute"
    /\ Len(branches) = 2
    /\ pc[1] = "required"
    /\ pc[2] = "done"
    /\ use_assumed[1]
    /\ ~use_assumed[2]
    /\ branch_results[2] # <<>>
    /\ branches[1].required_elements_cache # None
    /\ branches[2].required_elements_cache # None

(***************************************************************************)
(* Specification of renderings: the bundles compute_branches returned are  *)
(* converted to the legacy format.                                         *)
(***************************************************************************)
\* Branches of leaves and sub-rules, and a branch that still holds a wildcard
\* node, as a branch has it before compile_postprocess.
RenderTrees ==
    {Rule("Website", <<LeafA>>, "worst"),
     Rule("Website", <<Rule("Backend", <<LeafB>>, "worst"), LeafH>>, "worst"),
     Rule("Website", <<LeafA, BIRemainingResult(<<HostName>>)>>, "worst")}

RenderBranchLists ==
    UNION {[1..n -> RenderTrees] : n \in 1..MaxBranches}

InitRender ==
    /\ NoIdentifiersNoCompilation
    /\ op = "compute_branches"
    /\ pc = "call"
    /\ node = Rule("Website", <<>>, "worst")
    /\ result = None
    /\ use_assumed = FALSE
    /\ aggregation_results = <<>>
    /\ computation_options \in AssumedOptions
    /\ bi_status_fetcher \in [states : ParallelSnapshots, assumed_states : Overrides]
    /\ branches \in RenderBranchLists

\* convert_result_to_legacy_format on every bundle compute_branches returned.
Render ==
    /\ op = "compute_branches"
    /\ pc = "done"
    /\ pc' = "rendered"
    /\ rendered' = [i \in DOMAIN aggregation_results |->
                       convert_result_to_legacy_format(aggregation_results[i],
                                                       computation_options)]
    /\ UNCHANGED <<op, node, branches, computation_options, bi_status_fetcher,
                   use_assumed, result, aggregation_results, branch_results,
                   identifier_vars, compile_vars, local_vars>>

NextRender == ComputeBranches \/ Render

SpecRender == InitRender /\ [][NextRender]_vars

RECURSIVE HoldsOtherNode(_)
\* The tree holds a node that is neither a leaf nor a rule.
HoldsOtherNode(n) ==
    CASE n.kind = "leaf" -> FALSE
      [] n.kind = "rule" -> \E i \in 1..Len(n.nodes) : HoldsOtherNode(n.nodes[i])
      [] OTHER -> TRUE

\* The summary of a result.
Summary(r) ==
    [state |-> r.state,
     acknowledged |-> r.acknowledged,
     in_downtime |-> r.downtime_state > 0,
     in_service_period |-> r.in_service_period,
     output |-> r.output]

RECURSIVE IsTreeState(_, _, _)
\* t is the tuple of bundle b: the summary of the actual result, the summary
\* of the assumed result or none, the record of the node and, for a rule, the
\* tuples of the nested bundles; the tuple of a leaf has leaf_length entries.
IsTreeState(b, t, leaf_length) ==
    /\ Len(t) = IF b.instance.kind = "rule" THEN 4 ELSE leaf_length
    /\ t[1] = Some(Summary(b.actual_result))
    /\ t[2] = IF b.assumed_result = None
              THEN None
              ELSE Some(Summary(The(b.assumed_result)))
    /\ t[3].type = (IF b.instance.kind = "rule" THEN 2 ELSE 1)
    /\ b.instance.kind = "rule" => t[3].title = b.instance.properties.title
    /\ b.instance.kind = "leaf" => t[3].host = <<b.instance.site_id, b.instance.host_name>>
    /\ Len(t) = 4 =>
          /\ Len(t[4]) = Len(b.nested_results)
          /\ \A i \in 1..Len(t[4]) : IsTreeState(b.nested_results[i], t[4][i], leaf_length)

\* Every bundle whose tree holds another node than leaves and rules raised, and
\* every other bundle was rendered to tuples, a leaf's of leaf_length entries.
RenderedAs(leaf_length) ==
    pc = "rendered" =>
        \A i \in DOMAIN rendered :
            IF HoldsOtherNode(aggregation_results[i].instance)
            THEN HasRaised(rendered[i])
            ELSE /\ ~HasRaised(rendered[i])
                 /\ IsTreeState(aggregation_results[i],
                                rendered[i].returned.aggr_treestate, leaf_length)

\* C24 as stated: every node of the bundle tree, leaf bundles included, is
\* rendered to a 4-tuple, a leaf's list of children being empty.
C24_FourTuples_Original ==
    RenderedAs(4)

\* C24: every rule bundle is rendered to the 4-tuple (actual summary, assumed
\* summary or none, the node's record, the list of the rendered children), and
\* every leaf bundle to the 3-tuple without a list of children; rendering a
\* tree that holds a node that is neither leaf nor rule raises.
C24_RuleFourLeafThree ==
    RenderedAs(3)

\* Two branches were rendered: one with a sub-rule and an assumed result at its
\* top, and one that raised because of its wildcard node.
C24_Witness ==
    /\ pc = "rendered"
    /\ \E i, j \in DOMAIN rendered :
          /\ HasRaised(rendered[j])
          /\ ~HasRaised(rendered[i])
          /\ rendered[i].returned.aggr_treestate[2] # None
          /\ Len(rendered[i].returned.aggr_treestate[4]) = 2
          /\ Len(rendered[i].returned.aggr_treestate[4][1]) = 4
          /\ Len(rendered[i].returned.aggr_treestate[4][2]) = 3

(***************************************************************************)
(* The local check (cmk/base/plugins/agent_based/local.py).  A str is the  *)
(* sequence of its character codes.  The strings of the model are made of  *)
(* digits, letters, blanks and the characters " ( ) , - : ; = | only, and  *)
(* the conversions are defined for these: no escapes, no single quotes, no *)
(* fractions or exponents in numerals, and numerals of at most 9 digits.   *)
(* A float is the pair of a numerator and a denominator: a finite float is *)
(* the fraction in lowest terms it is the nearest float of, 0.0 is 0/1,    *)
(* -0.0 is 0/-1, inf is 1/0, -inf is -1/0 and nan is 0/0.                  *)
(***************************************************************************)
Blank == 32
DoubleQuote == 34
Comma == 44
Minus == 45
Semicolon == 59
Equals == 61
Bar == 124
Digits == 48..57

\* "cached("
CachedPrefix == <<99, 97, 99, 104, 101, 100, 40>>
\* "Invalid plugin status "
InvalidPluginStatus == <<73, 110, 118, 97, 108, 105, 100, 32, 112, 108, 117, 103, 105, 110, 32, 115, 116, 97, 116, 117, 115, 32>>
\* "Invalid performance data: "
InvalidPerformanceData ==
    <<73, 110, 118, 97, 108, 105, 100, 32, 112, 101, 114, 102, 111, 114, 109, 97, 110, 99, 101, 32, 100, 97, 116, 97, 58, 32>>
\* "Output is: "
OutputIs == <<79, 117, 116, 112, 117, 116, 32, 105, 115, 58, 32>>

\* s.startswith(prefix)
startswith(s, prefix) ==
    Len(s) >= Len(prefix) /\ SubSeq(s, 1, Len(prefix)) = prefix

\* The position of the first c in s, or 0.
find(s, c) ==
    IF \E i \in 1..Len(s) : s[i] = c
    THEN CHOOSE i \in 1..Len(s) : s[i] = c /\ \A j \in 1..(i - 1) : s[j] # c
    ELSE 0

RECURSIVE split(_, _)
\* s.split(sep), sep one character.
split(s, sep) ==
    IF find(s, sep) = 0
    THEN <<s>>
    ELSE <<SubSeq(s, 1, find(s, sep) - 1)>>
         \o split(SubSeq(s, find(s, sep) + 1, Len(s)), sep)

\* s.split(sep, 1)
split_once(s, sep) ==
    IF find(s, sep) = 0
    THEN <<s>>
    ELSE <<SubSeq(s, 1, find(s, sep) - 1), SubSeq(s, find(s, sep) + 1, Len(s))>>

RECURSIVE join(_, _)
\* sep.join(parts)
join(sep, parts) ==
    IF parts = <<>> THEN <<>>
    ELSE IF Len(parts) = 1 THEN parts[1]
    ELSE parts[1] \o sep \o join(sep, Tail(parts))

RECURSIVE rstrip(_, _)
\* s.rstrip(c)
rstrip(s, c) ==
    IF s # <<>> /\ s[Len(s)] = c THEN rstrip(SubSeq(s, 1, Len(s) - 1), c) ELSE s

RECURSIVE replace_escaped_newline(_)
\* s.replace("\\n", "\n"): a backslash followed by n becomes a line feed.
replace_escaped_newline(s) ==
    IF Len(s) < 2 THEN s
    ELSE IF s[1] = 92 /\ s[2] = 110
         THEN <<10>> \o replace_escaped_newline(SubSeq(s, 3, Len(s)))
         ELSE <<s[1]>> \o replace_escaped_newline(Tail(s))

\* repr(s) of a str without quotes and escapes.
repr(s) == <<39>> \o s \o <<39>>

Float(num, den) == [num |-> num, den |-> den]

Inf == Float(1, 0)
NegInf == Float(-1, 0)
NaN == Float(0, 0)

\* float(n) of an int n.
FromInt(n) == Float(n, 1)

IsNaN(x) == x.num = 0 /\ x.den = 0
IsInf(x) == x.num # 0 /\ x.den = 0
IsZero(x) == x.num = 0 /\ x.den # 0
\* The sign bit of a float that is not nan.
Negative(x) == x.num < 0 \/ (x.num = 0 /\ x.den < 0)

Abs(n) == IF n < 0 THEN 0 - n ELSE n

RECURSIVE GCD(_, _)
GCD(m, n) == IF n = 0 THEN m ELSE GCD(n, m % n)

\* The float of the fraction num/den of integers, den not 0, with the sign
\* bit `negative` if the fraction is 0.
Fraction(num, den, negative) ==
    IF num = 0
    THEN Float(0, IF negative THEN -1 ELSE 1)
    ELSE LET d == GCD(Abs(num), Abs(den))
         IN  Float((IF (num < 0) # (den < 0) THEN -1 ELSE 1) * (Abs(num) \div d),
                   Abs(den) \div d)

\* -x
FloatNeg(x) ==
    IF IsZero(x) THEN Float(0, 0 - x.den) ELSE Float(0 - x.num, x.den)

\* x - y
FloatSub(x, y) ==
    CASE IsNaN(x) \/ IsNaN(y) -> NaN
      [] IsInf(x) /\ IsInf(y) -> IF x = y THEN NaN ELSE x
      [] IsInf(x) -> x
      [] IsInf(y) -> FloatNeg(y)
      [] OTHER -> Fraction(x.num * Abs(y.den) - y.num * Abs(x.den),
                           Abs(x.den) * Abs(y.den),
                           IsZero(x) /\ IsZero(y) /\ Negative(x) /\ ~Negative(y))

\* x * y
FloatMul(x, y) ==
    CASE IsNaN(x) \/ IsNaN(y) -> NaN
      [] (IsInf(x) /\ IsZero(y)) \/ (IsZero(x) /\ IsInf(y)) -> NaN
      [] IsInf(x) \/ IsInf(y) -> IF Negative(x) # Negative(y) THEN NegInf ELSE Inf
      [] OTHER -> Fraction(x.num * y.num, Abs(x.den) * Abs(y.den),
                           Negative(x) # Negative(y))

\* x / y, y not 0.0 and not -0.0: Python raises ZeroDivisionError for these.
FloatDiv(x, y) ==
    CASE IsNaN(x) \/ IsNaN(y) -> NaN
      [] IsInf(x) /\ IsInf(y) -> NaN
      [] IsInf(x) -> IF Negative(x) # Negative(y) THEN NegInf ELSE Inf
      [] IsInf(y) -> Float(0, IF Negative(x) # Negative(y) THEN -1 ELSE 1)
      [] OTHER -> Fraction(x.num * Abs(y.den), Abs(x.den) * y.num,
                           Negative(x) # Negative(y))

\* The characters float() strips from both ends of its argument.
Whitespace == {9, 10, 11, 12, 13, Blank}

RECURSIVE strip(_)
\* s.strip()
strip(s) ==
    IF s = <<>> THEN s
    ELSE IF s[1] \in Whitespace THEN strip(Tail(s))
    ELSE IF s[Len(s)] \in Whitespace THEN strip(SubSeq(s, 1, Len(s) - 1))
    ELSE s

\* s.lower() of a str of ASCII characters.
lower(s) ==
    [i \in DOMAIN s |-> IF s[i] \in 65..90 THEN s[i] + 32 ELSE s[i]]

RECURSIVE Decimal(_)
\* The number a str of digits denotes.
Decimal(s) ==
    IF s = <<>> THEN 0 ELSE 10 * Decimal(SubSeq(s, 1, Len(s) - 1)) + (s[Len(s)] - 48)

\* float(s): the float, or none where float raises ValueError.  Blanks around
\* the numeral are stripped; after an optional "-" come digits, or "inf",
\* "infinity" or "nan" in any case.
float(s) ==
    LET read(negative, body) ==
            CASE body \in {<<105, 110, 102>>,
                           <<105, 110, 102, 105, 110, 105, 116, 121>>} ->
                     Some(IF negative THEN NegInf ELSE Inf)
              [] body = <<110, 97, 110>> -> Some(NaN)
              [] body # <<>> /\ \A i \in DOMAIN body : body[i] \in Digits ->
                     Some(IF negative
                          THEN FloatNeg(FromInt(Decimal(body)))
                          ELSE FromInt(Decimal(body)))
              [] OTHER -> None
        signed(stripped) ==
            IF stripped # <<>> /\ stripped[1] = Minus
            THEN read(TRUE, lower(Tail(stripped)))
            ELSE read(FALSE, lower(stripped))
    IN  signed(strip(s))

RECURSIVE float_ignore_uom(_)
\* float_ignore_uom(value): the float of the longest prefix float() accepts,
\* 0.0 if there is none.
float_ignore_uom(value) ==
    IF value = <<>> THEN FromInt(0)
    ELSE IF float(value) # None THEN The(float(value))
    ELSE float_ignore_uom(SubSeq(value, 1, Len(value) - 1))

\* _try_convert_to_float(value): the float, or None instead of the ValueError.
_try_convert_to_float(value) == float(value)

Perfdata(name, value, levels_upper, levels_lower, boundaries) ==
    [name |-> name,
     value |-> value,
     levels_upper |-> levels_upper,
     levels_lower |-> levels_lower,
     boundaries |-> boundaries]

LocalResult(cached, item, state, apply_levels, text, perfdata) ==
    [cached |-> cached,
     item |-> item,
     state |-> state,
     apply_levels |-> apply_levels,
     text |-> text,
     perfdata |-> perfdata]

LocalError(output, reason) == [output |-> output, reason |-> reason]

LocalSection(errors, data) == [errors |-> errors, data |-> data]

\* optional_tuple(warn, crit) of _parse_perfentry: the pair or None, or the
\* AssertionError of one level without the other.
optional_tuple(warn, crit) ==
    IF (warn = None) # (crit = None)
    THEN Raised("AssertionError")
    ELSE IF warn # None /\ crit # None
         THEN Returned(Some(<<The(warn), The(crit)>>))
         ELSE Returned(None)

\* _parse_perfentry(entry): the Perfdata, or the ValueError of an entry without
\* "=" or with a minimum or maximum that float() does not accept.  The
\* arguments of Perfdata are evaluated from left to right.
_parse_perfentry(entry) ==
    LET name_raw_list == split_once(rstrip(entry, Semicolon), Equals)
        \* The four levels as read, completed and put into the Perfdata.
        with_levels(name, raw, warn_upper, warn_lower, crit_upper, crit_lower) ==
            LET levels0 == IF warn_upper = None /\ crit_upper # None
                           THEN crit_upper ELSE warn_upper
                levels2 == IF warn_lower = None /\ crit_lower # None
                           THEN crit_lower ELSE warn_lower
                levels1 == IF levels0 # None /\ crit_upper = None
                           THEN Some(Inf) ELSE crit_upper
                levels3 == IF levels2 # None /\ crit_lower = None
                           THEN Some(NegInf) ELSE crit_lower
                perfdata(levels_upper, levels_lower) ==
                    IF HasRaised(levels_upper) THEN levels_upper
                    ELSE IF HasRaised(levels_lower) THEN levels_lower
                    ELSE IF \/ Len(raw) >= 4 /\ float(raw[4]) = None
                            \/ Len(raw) >= 5 /\ float(raw[5]) = None
                    THEN Raised("ValueError")
                    ELSE Returned(Perfdata(
                             name,
                             float_ignore_uom(raw[1]),
                             levels_upper.returned,
                             levels_lower.returned,
                             <<IF Len(raw) >= 4 THEN float(raw[4]) ELSE None,
                               IF Len(raw) >= 5 THEN float(raw[5]) ELSE None>>))
            IN  perfdata(optional_tuple(levels0, levels1),
                         optional_tuple(levels2, levels3))
        \* The levels read from the warn and crit fields of raw.
        with_fields(name, raw, warn, crit) ==
            with_levels(
                name, raw,
                IF Len(raw) >= 2 THEN _try_convert_to_float(warn[Len(warn)]) ELSE None,
                IF Len(warn) > 1 THEN _try_convert_to_float(warn[1]) ELSE None,
                IF Len(raw) >= 3 THEN _try_convert_to_float(crit[Len(crit)]) ELSE None,
                IF Len(crit) > 1 THEN _try_convert_to_float(crit[1]) ELSE None)
        \* raw = raw_list.split(";") and its warn and crit fields split at ":".
        with_raw(name, raw) ==
            with_fields(
                name, raw,
                IF Len(raw) >= 2 THEN split_once(raw[2], Colon) ELSE <<>>,
                IF Len(raw) >= 3 THEN split_once(raw[3], Colon) ELSE <<>>)
    IN  IF Len(name_raw_list) # 2
        THEN Raised("ValueError")
        ELSE with_raw(name_raw_list[1], split(name_raw_list[2], Semicolon))

\* _parse_perftxt(string): the Perfdata of the valid entries, and the message
\* that names the entries that raised ValueError; an exception of another
\* class is not caught.
_parse_perftxt(string) ==
    LET \* perfdata and msg, collected from the entries and what they parse to.
        collected(entries, parsed) ==
            LET valid == SelectSeq([i \in DOMAIN entries |-> i],
                                   LAMBDA i : ~HasRaised(parsed[i]))
                invalid == SelectSeq([i \in DOMAIN entries |-> i],
                                     LAMBDA i : HasRaised(parsed[i]))
                uncaught == SelectSeq(invalid,
                                      LAMBDA i : parsed[i].raised # "ValueError")
                perfdata == [k \in DOMAIN valid |-> parsed[valid[k]].returned]
                msg == [k \in DOMAIN invalid |-> entries[invalid[k]]]
            IN  IF uncaught # <<>>
                THEN parsed[uncaught[1]]
                ELSE IF msg # <<>>
                THEN Returned(<<perfdata,
                                InvalidPerformanceData \o repr(join(<<Bar>>, msg))
                                    \o <<46, Blank>>>>)
                ELSE Returned(<<perfdata, <<>>>>)
        each(entries) ==
            collected(entries, [i \in DOMAIN entries |-> _parse_perfentry(entries[i])])
    IN  IF string = <<Minus>>
        THEN Returned(<<<<>>, <<>>>>)
        ELSE each(split(string, Bar))

RECURSIVE shlex_scan(_, _, _, _, _)
\* shlex.split read from position i on: the tokens read are `tokens`, the
\* token being read is `token` if `started`, and `quoted` says that the
\* position is between double quotes.
shlex_scan(string, i, tokens, token, state) ==
    IF i > Len(string)
    THEN IF state = "quoted"
         THEN Raised("ValueError")
         ELSE Returned(IF state = "token" THEN Append(tokens, token) ELSE tokens)
    ELSE IF state = "quoted"
         THEN IF string[i] = DoubleQuote
              THEN shlex_scan(string, i + 1, tokens, token, "token")
              ELSE shlex_scan(string, i + 1, tokens, Append(token, string[i]), "quoted")
         ELSE IF string[i] = Blank
              THEN IF state = "token"
                   THEN shlex_scan(string, i + 1, Append(tokens, token), <<>>, "blank")
                   ELSE shlex_scan(string, i + 1, tokens, <<>>, "blank")
              ELSE IF string[i] = DoubleQuote
                   THEN shlex_scan(string, i + 1, tokens, token, "quoted")
                   ELSE shlex_scan(string, i + 1, tokens, Append(token, string[i]), "token")

\* shlex.split(string): the words of the string, a part between double quotes
\* belonging to its word; ValueError ("No closing quotation") if a quote is
\* left open.
shlex_split(string) ==
    shlex_scan(string, 1, <<>>, <<>>, "blank")

\* _parse_cache(line, now): (cached, stripped_line), or what it raises: the
\* ValueError of a cache token that does not hold two numbers, the
\* ZeroDivisionError of the interval 0.0 or -0.0.  now is an int.
_parse_cache(line, now) ==
    IF line = <<>> \/ ~startswith(line[1], CachedPrefix)
    THEN Returned(<<None, line>>)
    ELSE LET cache_raw == line[1]
             values == split_once(SubSeq(cache_raw, 8, Len(cache_raw) - 1), Comma)
         IN  IF Len(values) # 2 \/ \E i \in DOMAIN values : float(values[i]) = None
             THEN Raised("ValueError")
             ELSE LET creation_time == The(float(values[1]))
                      interval == The(float(values[2]))
                      age == FloatSub(FromInt(now), creation_time)
                  IN  IF IsZero(interval)
                      THEN Raised("ZeroDivisionError")
                      ELSE Returned(<<Some(<<age,
                                             FloatDiv(FloatMul(FromInt(100), age),
                                                      interval),
                                             interval>>),
                                      Tail(line)>>)

\* Mutant: a line of three tokens is never valid.
_is_valid_line_FourOnly(line) ==
    Len(line) >= 4

_is_valid_line(line) ==
    Len(line) >= 4 \/ (Len(line) = 3 /\ line[1] = <<80>>)

_get_violation_reason(line) ==
    IF Len(line) = 0
    THEN "Received empty line. Did any of your local checks returned a superfluous newline character?"
    ELSE IF Len(line) < 4 /\ ~(Len(line) = 3 /\ line[1] = <<80>>)
         THEN "Received wrong format of local check output. Please read the documentation regarding the correct format: https://docs.checkmk.com/2.0.0/de/localchecks.html "
         ELSE ""

\* _sanitize_state(raw_state): the state ("0", "1", "2", "3" or "P") and the
\* message.
_sanitize_state(raw_state) ==
    CASE raw_state = <<48>> -> <<"0", <<>>>>
      [] raw_state = <<49>> -> <<"1", <<>>>>
      [] raw_state = <<50>> -> <<"2", <<>>>>
      [] raw_state = <<51>> -> <<"3", <<>>>>
      [] raw_state = <<80>> -> <<"P", <<>>>>
      [] OTHER -> <<"3", InvalidPluginStatus \o raw_state \o <<46>>>>

\* State(raw_state) if raw_state != 'P' else State.OK
State(raw_state) ==
    CASE raw_state = "0" -> 0
      [] raw_state = "1" -> 1
      [] raw_state = "2" -> 2
      [] raw_state = "3" -> 3
      [] raw_state = "P" -> 0

\* data[item] = value, data a dict in the order of its first assignments.
setitem(data, item, value) ==
    IF \E i \in DOMAIN data : data[i].item = item
    THEN [i \in DOMAIN data |-> IF data[i].item = item THEN value ELSE data[i]]
    ELSE Append(data, value)

\* The LocalResult of a valid line, or what _parse_perftxt raises.
ParsedLine(cached, stripped_line) ==
    LET \* The result, from what the state, the performance data and the
        \* text of the line were read as.
        made(sanitized, perf, text) ==
            LET state_msg == sanitized[2]
                perf_msg == perf[2]
                invalid == state_msg # <<>> \/ perf_msg # <<>>
                raw_state == IF invalid THEN "3" ELSE sanitized[1]
            IN  LocalResult(
                    cached,
                    stripped_line[2],
                    State(raw_state),
                    raw_state = "P",
                    IF invalid THEN state_msg \o perf_msg \o OutputIs \o text ELSE text,
                    perf[1])
        local_result(sanitized, perftxt, text) ==
            IF HasRaised(perftxt)
            THEN perftxt
            ELSE Returned(made(sanitized, perftxt.returned, text))
    IN  local_result(_sanitize_state(stripped_line[1]),
                     _parse_perftxt(stripped_line[3]),
                     replace_escaped_newline(
                         join(<<Blank>>, SubSeq(stripped_line, 4, Len(stripped_line)))))

RECURSIVE ParseLines(_, _, _, _)
\* The loop of parse_local_pure over the lines that are left.
ParseLines(lines, now, errors, data) ==
    IF lines = <<>>
    THEN Returned(LocalSection(errors, data))
    ELSE LET line == Head(lines)
             split_line == IF Len(line) = 1 THEN shlex_split(line[1]) ELSE Returned(line)
         IN  IF HasRaised(split_line)
             THEN split_line
             ELSE LET parsed_cache == _parse_cache(split_line.returned, now)
                  IN  IF HasRaised(parsed_cache)
                      THEN parsed_cache
                      ELSE LET cached == parsed_cache.returned[1]
                               stripped_line == parsed_cache.returned[2]
                           IN  IF ~_is_valid_line(stripped_line)
                               THEN ParseLines(
                                        Tail(lines), now,
                                        Append(errors,
                                               LocalError(
                                                   join(<<Blank>>, stripped_line),
                                                   _get_violation_reason(stripped_line))),
                                        data)
                               ELSE LET local_result ==
                                            ParsedLine(cached, stripped_line)
                                    IN  IF HasRaised(local_result)
                                        THEN local_result
                                        ELSE ParseLines(
                                                 Tail(lines), now, errors,
                                                 setitem(data, stripped_line[2],
                                                         local_result.returned))

parse_local_pure(table, now) ==
    ParseLines(table, now, <<>>, <<>>)

Service(item) == [item |-> item]

\* discover_local(section): the generator, of which no step has run.
discover_local(parsed) ==
    [section |-> parsed, state |-> "created", yielded |-> <<>>, raised |-> None]

\* next(generator): discover_local runs to its next yield, to its end or to the
\* ValueError it raises before the first yield; the message of the error is
\* made of the reason and the output of the first error.  A generator that has
\* raised or has come to its end is finished: next() raises StopIteration.
generator_next(generator) ==
    LET parsed == generator.section
    IN  IF generator.state \in {"raised", "finished"}
        THEN [generator EXCEPT !.state = "finished", !.raised = None]
        ELSE IF generator.state = "created" /\ parsed.errors # <<>>
        THEN [generator EXCEPT
                  !.state = "raised",
                  !.raised = Some([exception |-> "ValueError",
                                   reason |-> parsed.errors[1].reason,
                                   output |-> parsed.errors[1].output])]
        ELSE IF Len(generator.yielded) < Len(parsed.data)
        THEN [generator EXCEPT
                  !.state = "suspended",
                  !.yielded = Append(@, Service(parsed.data[Len(@) + 1].item))]
        ELSE [generator EXCEPT !.state = "finished"]

(***************************************************************************)
(* Specification of the local check: an agent section is parsed, and the   *)
(* services of the parsed section are discovered.                          *)
(***************************************************************************)
MaxTextTokens == 2

\* time.time() of parse_local
Now == 5

\* "0", "1", "2", "3", "P" and "X"
StateTokens == {<<48>>, <<49>>, <<50>>, <<51>>, <<80>>, <<88>>}

\* "a" and "b"
ItemTokens == {<<97>>, <<98>>}

\* "-", "v=1", "v", "v=1;;;x", "v=1;2;3;0;inf" and "v=1;2;3;0;9|w"
PerfTokens ==
    {<<Minus>>,
     <<118, 61, 49>>,
     <<118>>,
     <<118, 61, 49, 59, 59, 59, 120>>,
     <<118, 61, 49, 59, 50, 59, 51, 59, 48, 59, 105, 110, 102>>,
     <<118, 61, 49, 59, 50, 59, 51, 59, 48, 59, 57, 124, 119>>}

\* "cached(1,2)", "cached(1,3)", "cached(1,0)" and "cached(x)"
CacheTokens ==
    {<<99, 97, 99, 104, 101, 100, 40, 49, 44, 50, 41>>,
     <<99, 97, 99, 104, 101, 100, 40, 49, 44, 51, 41>>,
     <<99, 97, 99, 104, 101, 100, 40, 49, 44, 48, 41>>,
     <<99, 97, 99, 104, 101, 100, 40, 120, 41>>}

\* The words of the text: "t", up to MaxTextTokens times.
TextTokens == UNION {[1..n -> {<<116>>}] : n \in 0..MaxTextTokens}

\* Lines of cache information, state, item, performance data and text.
FullLines ==
    {cache \o <<state, item, perf>> \o text :
        cache \in {<<>>} \cup {<<c>> : c \in CacheTokens},
        state \in StateTokens, item \in ItemTokens, perf \in PerfTokens,
        text \in TextTokens}

\* Lines in one piece, as agents send them since version 1.7:
\* '0 "a b" - t', 'P a v=1', '2 a' and '0 "a - t'.
WholeLines ==
    {<<<<48, 32, 34, 97, 32, 98, 34, 32, 45, 32, 116>>>>,
     <<<<80, 32, 97, 32, 118, 61, 49>>>>,
     <<<<50, 32, 97>>>>,
     <<<<48, 32, 34, 97, 32, 45, 32, 116>>>>}

\* The full lines, the lines cut short, and the lines in one piece.
Lines ==
    UNION {{SubSeq(l, 1, n) : n \in 0..Len(l)} : l \in FullLines} \cup WholeLines

\* The lines that follow: "2 a - t", "P b v=1" and "1".
SecondLines ==
    {<<<<50>>, <<97>>, <<Minus>>, <<116>>>>,
     <<<<80>>, <<98>>, <<118, 61, 49>>>>,
     <<<<49>>>>}

StringTables ==
    {<<l>> : l \in Lines} \cup {<<l1, l2>> : l1 \in Lines, l2 \in SecondLines}

InitLocal ==
    /\ string_table \in StringTables
    /\ section = <<>>
    /\ discovery = <<>>
    /\ branch_results = <<>>
    /\ rendered = <<>>
    /\ idents = <<>>
    /\ previous_idents = <<>>
    /\ used_ids = {}
    /\ services_of_host = EmptyDict
    /\ bi_searcher = EmptyDict
    /\ postprocessed_nodes = <<>>
    /\ uncompiled = None
    /\ previous_nodes = <<>>
    /\ op = "parse_local"
    /\ pc = "call"
    /\ node = Rule("Website", <<>>, "worst")
    /\ branches = <<>>
    /\ computation_options \in {o \in TreeOptions :
                                  ~o.freeze_aggregations /\ ~o.escalate_downtimes_as_warn}
    /\ bi_status_fetcher = Fetcher(NoHosts, EmptyDict)
    /\ use_assumed = FALSE
    /\ result = None
    /\ aggregation_results = <<>>

\* parse_local on the section of the agent.
ParseLocal ==
    /\ op = "parse_local"
    /\ pc = "call"
    /\ pc' = "parsed"
    /\ section' = parse_local_pure(string_table, Now)
    /\ UNCHANGED <<op, node, compute_vars, identifier_vars, compile_vars,
                   string_table, discovery>>

\* discover_local on the parsed section: the call makes the generator and
\* runs nothing of the function.
DiscoverLocal ==
    /\ op = "parse_local"
    /\ pc = "parsed"
    /\ ~HasRaised(section)
    /\ pc' = "discovering"
    /\ discovery' = discover_local(section.returned)
    /\ UNCHANGED <<op, node, compute_vars, identifier_vars, compile_vars,
                   string_table, section>>

\* The consumer of the services takes the next one: the generator runs to its
\* next yield, and is done when it returns or raises.
DiscoverNext ==
    /\ op = "parse_local"
    /\ pc = "discovering"
    /\ discovery' = generator_next(discovery)
    /\ pc' = IF discovery'.state = "suspended" THEN "discovering" ELSE "discovered"
    /\ UNCHANGED <<op, node, compute_vars, identifier_vars, compile_vars,
                   string_table, section>>

NextLocal == ParseLocal \/ DiscoverLocal \/ DiscoverNext

SpecLocal == InitLocal /\ [][NextLocal]_vars

(***************************************************************************)
(* Properties of the local check (checked under SpecLocal)                 *)
(***************************************************************************)
\* The tokens of a line; a line in one piece is split into its words.
TokensOf(line) ==
    IF Len(line) = 1 THEN shlex_split(line[1]).returned ELSE line

\* The tokens of a line without the leading cached(...) token, if it has one.
WithoutCached(tokens) ==
    IF tokens # <<>> /\ startswith(tokens[1], CachedPrefix) THEN Tail(tokens) ELSE tokens

\* parse_local_pure does not return for a table with this line: a quote is
\* left open, or the cached(...) token does not hold two numbers, the second
\* of them not 0.0 or -0.0.
Unreadable(line) ==
    \/ Len(line) = 1 /\ HasRaised(shlex_split(line[1]))
    \/ /\ TokensOf(line) # <<>>
       /\ startswith(TokensOf(line)[1], CachedPrefix)
       /\ LET token == TokensOf(line)[1]
              inside == SubSeq(token, Len(CachedPrefix) + 1, Len(token) - 1)
              comma == find(inside, Comma)
          IN  \/ comma = 0
              \/ float(SubSeq(inside, 1, comma - 1)) = None
              \/ float(SubSeq(inside, comma + 1, Len(inside))) = None
              \/ IsZero(The(float(SubSeq(inside, comma + 1, Len(inside)))))

\* The line of string_table at position i, as the claim looks at it.
Stripped(i) == WithoutCached(TokensOf(string_table[i]))

\* Fewer than 4 tokens, and not 3 tokens of which the first is "P".
TooShort(tokens) ==
    Len(tokens) < 4 /\ ~(Len(tokens) = 3 /\ tokens[1] = <<80>>)

ErrorLines == SelectSeq([i \in DOMAIN string_table |-> i], LAMBDA i : TooShort(Stripped(i)))

DataLines == {i \in DOMAIN string_table : ~TooShort(Stripped(i))}

\* An entry of the performance data without "=", or with a minimum or a
\* maximum that float() does not accept.
InvalidPerfEntry(entry) ==
    LET stripped == rstrip(entry, Semicolon)
        eq == find(stripped, Equals)
        fields == split(SubSeq(stripped, eq + 1, Len(stripped)), Semicolon)
    IN  \/ eq = 0
        \/ \E k \in {4, 5} : Len(fields) >= k /\ float(fields[k]) = None

\* The state token is none of 0, 1, 2, 3, P, or an entry of the performance
\* data is invalid.
InvalidLine(tokens) ==
    \/ tokens[1] \notin {<<48>>, <<49>>, <<50>>, <<51>>, <<80>>}
    \/ /\ tokens[3] # <<Minus>>
       /\ \E k \in DOMAIN split(tokens[3], Bar) : InvalidPerfEntry(split(tokens[3], Bar)[k])

\* The last line of string_table that yields data for the item.
LastLineOf(item) ==
    CHOOSE i \in DataLines :
        /\ Stripped(i)[2] = item
        /\ \A j \in DataLines : Stripped(j)[2] = item => j <= i

\* The errors are the too short lines, in their order, and no other line.
ErrorsAreTheShortLines ==
    /\ Len(section.returned.errors) = Len(ErrorLines)
    /\ \A k \in DOMAIN ErrorLines :
          section.returned.errors[k].output = join(<<Blank>>, Stripped(ErrorLines[k]))

\* The data hold one entry for every item of the other lines, made of the last
\* line of the item: UNKNOWN and without levels if the line is invalid, and
\* else of the state of its state token, with levels for "P".
DataAreTheOtherLines ==
    LET data == section.returned.data
    IN  /\ {data[k].item : k \in DOMAIN data} = {Stripped(i)[2] : i \in DataLines}
        /\ \A k, l \in DOMAIN data : data[k].item = data[l].item => k = l
        /\ \A k \in DOMAIN data :
              LET tokens == Stripped(LastLineOf(data[k].item))
              IN  IF InvalidLine(tokens)
                  THEN data[k].state = 3 /\ ~data[k].apply_levels
                  ELSE /\ data[k].state = (IF tokens[1] = <<80>> THEN 0 ELSE tokens[1][1] - 48)
                       /\ data[k].apply_levels = (tokens[1] = <<80>>)

\* discover_local raises ValueError, and yields nothing, iff there are errors:
\* with errors it never yields and ends with the ValueError, without errors
\* it never raises and ends having yielded the service of every item.
DiscoveryRaisesOnErrors ==
    pc \in {"discovering", "discovered"} =>
        /\ section.returned.errors # <<>> => discovery.yielded = <<>>
        /\ discovery.state = "raised" =>
              /\ section.returned.errors # <<>>
              /\ The(discovery.raised).exception = "ValueError"
        /\ pc = "discovered" =>
              /\ discovery.state \in {"raised", "finished"}
              /\ discovery.state = "raised" <=> section.returned.errors # <<>>
        /\ discovery.state = "finished" =>
              discovery.yielded = [k \in DOMAIN section.returned.data |->
                                      Service(section.returned.data[k].item)]

====
